---- MODULE Spec2Model ----
(***************************************************************************)
(* A model of the product-feed core: the feature cache (Redis), the bandit *)
(* module, the event consumer, the CF worker (training and top-K write),   *)
(* the popularity aggregator and the feed ranker.  Real-valued quantities  *)
(* are fixed-point integers: scores, popularities, text scores and bandit  *)
(* samples are in millionths.                                              *)
(***************************************************************************)
EXTENDS Integers, Sequences, FiniteSets, TLC

VARIABLES
    \* ---- the cache (Redis)
    bandit,         \* bandit:merchant:{id} / bandit:category:{id} hashes
    sessionRecent,  \* session:{id}:recent lists, newest at the head
    sessionTtl,     \* the TTL set on each session list, 0 when none
    events,         \* the `events` list: producers push left, consumers pop right
    \* ---- the store (Prisma)
    product,        \* the Product table, by id
    interaction,    \* the Interaction table, rows in creation order
    merchant,       \* the Merchant table: the popularity of each merchant
    now,            \* the clock of the store, in days
    featureStore,   \* the FeatureStore table: key -> latent vector
    \* ---- the event consumers (one runLoop per replica)
    replicas,       \* the consumers that run
    pc,             \* where each consumer's runLoop / handleEvent stands
    cur,            \* the event a consumer's handleEvent was called with
    pMeta,          \* handleEvent's pMeta: the reply of product.findUnique
    \* ---- the clients of POST /events
    requests,       \* the requests clients send in this run
    budget,         \* how many more messages are pushed in this run
    posted,         \* how many messages have been pushed to `events`
    response,       \* the last POST /events response, status 0 when none
    \* ---- history
    handled,        \* the events handleEvent was called with, in pop order
    pushLog,        \* per session, the product ids pushed on its trail, oldest first
    trace,          \* per consumer, what became of each step of its last event
    outcomes,       \* per bandit key, the outcomes recorded by direct calls
    sampled,        \* the last sampleMerchantBoost call: what getAB read, the draw
    \* ---- the ranking features in the cache
    userTopK,       \* user:topk:{userId} sorted sets: member -> score
    userTopTtl,     \* the TTL set on each user top-K key, 0 when none
    globalTop,      \* the global:topk sorted set: member -> score
    productMeta,    \* the product:meta hash: product id -> meta
    \* ---- the CF worker's run and its readers
    cf,             \* where the worker's top-K write loop stands
    committed,      \* per user, the sets the key held after a finished write
    trained,        \* what each finished training computed, run after run
    \* ---- the popularity aggregator
    pop,            \* where the feature worker's runOnce stands
    \* ---- the feed ranker
    feed,           \* the getFeed call under way: its parameters and locals
    feedOut,        \* what the last getFeed call returned
    feedRequests,   \* the parameters getFeed is called with in this run
    feedBudget,     \* how many more getFeed calls are made in this run
    \* ---- the diversity re-ranker
    div             \* an ensureDiversity call: its input and the locals of its loop

banditVars == <<bandit, outcomes, sampled>>
cacheVars == <<bandit, sessionRecent, sessionTtl, events>>
storeVars == <<product, interaction, merchant, now, featureStore>>
consumerVars == <<replicas, pc, cur, pMeta>>
clientVars == <<requests, budget, posted, response>>
historyVars == <<handled, pushLog, trace, outcomes, sampled>>
featureVars == <<userTopK, userTopTtl, globalTop, productMeta>>
cfVars == <<cf, committed, trained>>
popVars == <<pop>>
feedVars == <<feed, feedOut, feedRequests, feedBudget>>
rankVars == <<featureVars, cfVars, popVars, feedVars>>
diversityVars == <<div>>
vars ==
    <<cacheVars, storeVars, consumerVars, clientVars, historyVars, rankVars,
      diversityVars>>

(***************************************************************************)
(* Bounds of the model.                                                    *)
(***************************************************************************)
MaxOutcomes == 4
MaxEvents == 2

(***************************************************************************)
(* Identifiers.                                                            *)
(***************************************************************************)
Merchants == {"M1", "M2"}
Categories == {"C1", "C2"}

\* src/lib/redis.ts: KEYS.merchantBeta / KEYS.categoryBeta
merchantBeta(merchantId) == <<"bandit:merchant", merchantId>>
categoryBeta(catId) == <<"bandit:category", catId>>
BanditKeys ==
    {merchantBeta(m) : m \in Merchants} \cup {categoryBeta(c) : c \in Categories}

(***************************************************************************)
(* Redis hashes.  A hash is a function from the fields it holds to integer *)
(* values; a key that does not exist is the empty hash.  A null reply is   *)
(* <<>>, a value v is <<v>>.                                               *)
(***************************************************************************)
EmptyHash == [f \in {} |-> 0]

\* HINCRBY: a field that does not exist counts as 0 before the increment
HINCRBY(h, field, n) ==
    [f \in DOMAIN h \cup {field} |->
        IF f = field
            THEN (IF field \in DOMAIN h THEN h[field] ELSE 0) + n
            ELSE h[f]]

\* the hash at a key: a key that does not exist reads as the empty hash
hashAt(bd, key) == IF key \in DOMAIN bd THEN bd[key] ELSE EmptyHash

HMGET(h, fields) ==
    [i \in 1..Len(fields) |->
        IF fields[i] \in DOMAIN h THEN <<h[fields[i]]>> ELSE <<>>]

(***************************************************************************)
(* services/bandit.ts                                                      *)
(***************************************************************************)
\* Number(data[i] || 1): a null reply gives 1; a stored count is a non-empty
\* string and is taken as it is.
getAB(h) ==
    LET data == HMGET(h, <<"a", "b">>)
    IN  [a |-> IF data[1] = <<>> THEN 1 ELSE data[1][1],
         b |-> IF data[2] = <<>> THEN 1 ELSE data[2][1]]

\* sampleBeta draws ga/(ga+gb) from two Math.random() calls: any value strictly
\* between 0 and 1 can come out, whatever a and b are.  In millionths.
sampleBeta(a, b) == {1, 500000, 990000}

recordBanditOutcome(bd, key, success) ==
    [bd EXCEPT ![key] = HINCRBY(@, IF success THEN "a" ELSE "b", 1)]

(***************************************************************************)
(* Redis lists: the head is element 1.  Indexes are Redis's, from 0 and    *)
(* inclusive at both ends.                                                 *)
(***************************************************************************)
Min(x, y) == IF x < y THEN x ELSE y

\* variant: the value is added at the tail, the end BRPOP takes from
RPUSH(list, v) == Append(list, v)

LPUSH(list, v) == <<v>> \o list

LTRIM(list, start, stop) == SubSeq(list, start + 1, Min(stop + 1, Len(list)))

LRANGE(list, start, stop) == SubSeq(list, start + 1, Min(stop + 1, Len(list)))

(***************************************************************************)
(* The store.  Product ids are numbers; 3 is an id no Product row has.     *)
(***************************************************************************)
ProductIds == {1, 2, 3}
SessionIds == {"S1", "S2"}
EventTypes == {"VIEW", "CLICK", "CART", "PURCHASE"}
Consumers == {"c1", "c2"}

Catalog ==
    (1 :> [id |-> 1, title |-> "red shoe", merchantId |-> "M1",
           productCategoryId |-> "C1", popularity |-> 10000000])
    @@ (2 :> [id |-> 2, title |-> "blue shirt", merchantId |-> "M2",
              productCategoryId |-> "C1", popularity |-> 5000000])

\* prisma.product.findUnique({where: {id}}): <<row>>, or <<>> for null
findUnique(table, id) == IF id \in DOMAIN table THEN <<table[id]>> ELSE <<>>

(***************************************************************************)
(* Messages on the `events` list.  seq is not part of the message: it      *)
(* names the push that produced it, so that histories can tell two equal   *)
(* messages apart.                                                         *)
(***************************************************************************)
Undefined == "<undefined>"

NoEvent ==
    [seq |-> 0, userId |-> Undefined, sessionId |-> Undefined, productId |-> 0,
     type |-> ""]

\* JSON.stringify(parsed.data): the text of an object with the event's fields
JSONstringify(seq, data) ==
    [kind |-> "json", seq |-> seq, userId |-> data.userId,
     sessionId |-> data.sessionId, productId |-> data.productId,
     type |-> data.type]

\* a text that is no JSON, pushed by a producer other than POST /events
GarbageText(seq) ==
    [kind |-> "garbage", seq |-> seq, userId |-> Undefined,
     sessionId |-> Undefined, productId |-> 0, type |-> ""]

\* JSON.parse(res[1]): the object, or a SyntaxError
JSONparse(text) ==
    IF text.kind = "json"
        THEN [ok |-> TRUE,
              value |-> [seq |-> text.seq, userId |-> text.userId,
                         sessionId |-> text.sessionId,
                         productId |-> text.productId, type |-> text.type]]
        ELSE [ok |-> FALSE, value |-> NoEvent]

\* `if (sessionId)`: undefined and the empty string are falsy
Truthy(str) == str # Undefined /\ str # ""

(***************************************************************************)
(* workers/event_consumer.ts: the effect of each call of handleEvent.      *)
(***************************************************************************)
TRAIL_STOP == 49
SESSION_TTL == 86400

\* variant: rpush instead of lpush: the newest id goes to the tail
trailPushRight(sr, e) == [sr EXCEPT ![e.sessionId] = Append(@, e.productId)]

\* redis.lpush(key, productId)
trailPush(sr, e) == [sr EXCEPT ![e.sessionId] = LPUSH(@, e.productId)]

\* variant: ltrim(key, 0, 50): one id too many is kept
trailTrimKeepsOneMore(sr, e) ==
    [sr EXCEPT ![e.sessionId] = LTRIM(@, 0, TRAIL_STOP + 1)]

\* redis.ltrim(key, 0, 49)
trailTrim(sr, e) == [sr EXCEPT ![e.sessionId] = LTRIM(@, 0, TRAIL_STOP)]

\* redis.expire(key, 60 * 60 * 24)
trailExpire(ttl, e) == [ttl EXCEPT ![e.sessionId] = SESSION_TTL]

\* variant: CART counted as a success too
banditOutcomeCartSucceeds(type) ==
    IF type = "CLICK" \/ type = "PURCHASE" \/ type = "CART" THEN <<TRUE>>
    ELSE IF type = "VIEW" THEN <<FALSE>>
    ELSE <<>>

\* the branch on type: <<TRUE>> a success, <<FALSE>> a failure, <<>> no update
banditOutcomeOf(type) ==
    IF type = "CLICK" \/ type = "PURCHASE" THEN <<TRUE>>
    ELSE IF type = "VIEW" THEN <<FALSE>>
    ELSE <<>>

\* prisma.interaction.create({data: {userId, productId, type, value: 1}});
\* ev names the event the row was written for (history)
interactionRow(e) ==
    [userId |-> e.userId, productId |-> e.productId, type |-> e.type,
     value |-> 1, ev |-> e.seq]

\* the row the store makes of the data: createdAt defaults to the clock
created(data, clock) == data @@ [createdAt |-> clock]

\* variant: step 2 without its try/catch: the error leaves handleEvent
afterBanditFailureRethrows == "sleep"

\* the catch of step 2 logs the error; handleEvent goes on with step 3
afterBanditFailure == "create"

\* the catch of step 3 logs the error; handleEvent returns to the loop
afterCreateFailure == "brpop"

\* step 1 stands outside any try: its error leaves handleEvent and reaches the
\* catch of runLoop, which logs it and sleeps 1 s
afterTrailFailure == "sleep"

\* variant: JSON.parse outside the loop's try: the error ends runLoop
afterBadJsonEndsLoop == "ended"

\* JSON.parse throws inside the loop's try: the catch logs it and sleeps 1 s
afterBadJson == "sleep"

\* where handleEvent goes after the product lookup
afterFindUnique(meta, type) ==
    IF meta # <<>> /\ banditOutcomeOf(type) # <<>> THEN "recordMerchant"
    ELSE "create"

NoSample == [merchantId |-> "", a |-> 0, b |-> 0, boost |-> 0, k |-> 0, m |-> 0]

NoTrace ==
    [seq |-> 0, s1 |-> "none", tries |-> 0, s2 |-> "none", s3 |-> "none",
     result |-> "none"]

(***************************************************************************)
(* handleEvent run from its first line to its last with nothing else       *)
(* running: the state a single consumer leaves after a list of events.     *)
(***************************************************************************)
handleEventSeq(w, e) ==
    LET inSession == Truthy(e.sessionId)
        meta == findUnique(w.product, e.productId)
        out == banditOutcomeOf(e.type)
    IN  [w EXCEPT
           !.sessionRecent =
               IF inSession THEN trailTrim(trailPush(@, e), e) ELSE @,
           !.sessionTtl = IF inSession THEN trailExpire(@, e) ELSE @,
           !.bandit =
               IF afterFindUnique(meta, e.type) = "recordMerchant"
                   THEN recordBanditOutcome(
                            recordBanditOutcome(@, merchantBeta(meta[1].merchantId),
                                                out[1]),
                            categoryBeta(meta[1].productCategoryId), out[1])
                   ELSE @,
           !.interaction = Append(@, created(interactionRow(e), w.now)),
           !.handled = Append(@, e),
           !.pushLog =
               IF inSession THEN [@ EXCEPT ![e.sessionId] = Append(@, e.productId)]
               ELSE @]

RECURSIVE runSequential(_, _)
runSequential(w, evs) ==
    IF evs = <<>> THEN w
    ELSE runSequential(handleEventSeq(w, Head(evs)), Tail(evs))

FreshWorld ==
    [sessionRecent |-> [s \in SessionIds |-> <<>>],
     sessionTtl |-> [s \in SessionIds |-> 0],
     bandit |-> [key \in BanditKeys |-> EmptyHash],
     product |-> Catalog,
     interaction |-> <<>>,
     merchant |-> [m \in Merchants |-> 0],
     now |-> 0,
     featureStore |-> <<>>,
     handled |-> <<>>,
     pushLog |-> [s \in SessionIds |-> <<>>]]

(***************************************************************************)
(* POST /events (the handler at the end of services/bandit.ts).            *)
(***************************************************************************)
\* schema.safeParse(req.body).success; a productId of 0 stands for a missing one
\* variant: a schema that accepts every body
safeParseAny(body) == body = body

safeParse(body) ==
    /\ body.sessionId # Undefined
    /\ body.productId # 0
    /\ body.type \in EventTypes

\* what the handler answered: n counts its calls, req is the request
NoResponse == [n |-> 0, status |-> 0, req |-> <<>>]

handler ==
    \E req \in requests :
        /\ budget > 0
        /\ budget' = budget - 1
        /\ IF req.method # "POST"
              THEN /\ response' = [n |-> response.n + 1, status |-> 405, req |-> req]
                   /\ UNCHANGED <<events, posted>>
           ELSE IF ~safeParse(req.body)
              THEN /\ response' = [n |-> response.n + 1, status |-> 400, req |-> req]
                   /\ UNCHANGED <<events, posted>>
           ELSE /\ events' = LPUSH(events, JSONstringify(posted + 1, req.body))
                /\ posted' = posted + 1
                /\ response' = [n |-> response.n + 1, status |-> 200, req |-> req]
        /\ UNCHANGED <<rankVars, bandit, sessionRecent, sessionTtl, storeVars,
                       consumerVars, requests, historyVars,
                   diversityVars>>

\* another producer pushes a text that is no JSON
foreignPush ==
    /\ budget > 0
    /\ budget' = budget - 1
    /\ events' = LPUSH(events, GarbageText(posted + 1))
    /\ posted' = posted + 1
    /\ UNCHANGED <<rankVars, bandit, sessionRecent, sessionTtl, storeVars, consumerVars,
                   requests, response, historyVars,
                   diversityVars>>

(***************************************************************************)
(* workers/event_consumer.ts: runLoop and handleEvent, one action per      *)
(* awaited call.                                                           *)
(***************************************************************************)
\* redis.brpop('events', 1) answers null: sleep 50 ms, loop
brpopEmpty(c) ==
    /\ pc[c] = "brpop"
    /\ events = <<>>
    /\ pc' = [pc EXCEPT ![c] = "sleep"]
    /\ UNCHANGED <<rankVars, cacheVars, storeVars, replicas, cur, pMeta, clientVars,
                   historyVars,
                   diversityVars>>

\* brpop answers a text, JSON.parse gives the event, handleEvent starts
brpopEvent(c) ==
    /\ pc[c] = "brpop"
    /\ events # <<>>
    /\ LET msg == JSONparse(events[Len(events)])
       IN  /\ msg.ok
           /\ events' = SubSeq(events, 1, Len(events) - 1)
           /\ cur' = [cur EXCEPT ![c] = msg.value]
           /\ handled' = Append(handled, msg.value)
           /\ trace' = [trace EXCEPT ![c] =
                          [NoTrace EXCEPT !.seq = msg.value.seq,
                                          !.result = "running"]]
           /\ pc' = [pc EXCEPT ![c] =
                       IF Truthy(msg.value.sessionId) THEN "lpush"
                       ELSE "findUnique"]
    /\ UNCHANGED <<rankVars, bandit, sessionRecent, sessionTtl, storeVars, replicas, pMeta,
                   clientVars, pushLog, outcomes, sampled,
                   diversityVars>>

\* brpop answers a text, JSON.parse throws: the loop's catch logs and sleeps 1 s
brpopBadJson(c) ==
    /\ pc[c] = "brpop"
    /\ events # <<>>
    /\ LET text == events[Len(events)]
       IN  /\ ~JSONparse(text).ok
           /\ events' = SubSeq(events, 1, Len(events) - 1)
           /\ trace' = [trace EXCEPT ![c] =
                          [NoTrace EXCEPT !.seq = text.seq,
                                          !.result = "discarded"]]
           /\ pc' = [pc EXCEPT ![c] = afterBadJson]
    /\ UNCHANGED <<rankVars, bandit, sessionRecent, sessionTtl, storeVars, replicas, cur,
                   pMeta, clientVars, handled, pushLog, outcomes, sampled,
                   diversityVars>>

\* the setTimeout of either sleep fires
wake(c) ==
    /\ pc[c] = "sleep"
    /\ pc' = [pc EXCEPT ![c] = "brpop"]
    /\ UNCHANGED <<rankVars, cacheVars, storeVars, replicas, cur, pMeta, clientVars,
                   historyVars,
                   diversityVars>>

lpush(c) ==
    /\ pc[c] = "lpush"
    /\ sessionRecent' = trailPush(sessionRecent, cur[c])
    /\ pushLog' = [pushLog EXCEPT ![cur[c].sessionId] = Append(@, cur[c].productId)]
    /\ trace' = [trace EXCEPT ![c].tries = @ + 1]
    /\ pc' = [pc EXCEPT ![c] = "ltrim"]
    /\ UNCHANGED <<rankVars, bandit, sessionTtl, events, storeVars, replicas, cur, pMeta,
                   clientVars, handled, outcomes, sampled,
                   diversityVars>>

ltrim(c) ==
    /\ pc[c] = "ltrim"
    /\ sessionRecent' = trailTrim(sessionRecent, cur[c])
    /\ pc' = [pc EXCEPT ![c] = "expire"]
    /\ UNCHANGED <<rankVars, bandit, sessionTtl, events, storeVars, replicas, cur, pMeta,
                   clientVars, historyVars,
                   diversityVars>>

expire(c) ==
    /\ pc[c] = "expire"
    /\ sessionTtl' = trailExpire(sessionTtl, cur[c])
    /\ trace' = [trace EXCEPT ![c].s1 = "ok"]
    /\ pc' = [pc EXCEPT ![c] = "findUnique"]
    /\ UNCHANGED <<rankVars, bandit, sessionRecent, events, storeVars, replicas, cur, pMeta,
                   clientVars, handled, pushLog, outcomes, sampled,
                   diversityVars>>

productFindUnique(c) ==
    /\ pc[c] = "findUnique"
    /\ LET meta == findUnique(product, cur[c].productId)
           next == afterFindUnique(meta, cur[c].type)
       IN  /\ pMeta' = [pMeta EXCEPT ![c] = meta]
           /\ pc' = [pc EXCEPT ![c] = next]
           /\ trace' = [trace EXCEPT ![c].s2 =
                          IF next = "create" THEN "ok" ELSE @]
    /\ UNCHANGED <<rankVars, cacheVars, storeVars, replicas, cur, clientVars, handled,
                   pushLog, outcomes, sampled,
                   diversityVars>>

recordMerchant(c) ==
    /\ pc[c] = "recordMerchant"
    /\ bandit' = recordBanditOutcome(bandit, merchantBeta(pMeta[c][1].merchantId),
                                     banditOutcomeOf(cur[c].type)[1])
    /\ pc' = [pc EXCEPT ![c] = "recordCategory"]
    /\ UNCHANGED <<rankVars, sessionRecent, sessionTtl, events, storeVars, replicas, cur,
                   pMeta, clientVars, historyVars,
                   diversityVars>>

recordCategory(c) ==
    /\ pc[c] = "recordCategory"
    /\ bandit' = recordBanditOutcome(bandit,
                                     categoryBeta(pMeta[c][1].productCategoryId),
                                     banditOutcomeOf(cur[c].type)[1])
    /\ trace' = [trace EXCEPT ![c].s2 = "ok"]
    /\ pc' = [pc EXCEPT ![c] = "create"]
    /\ UNCHANGED <<rankVars, sessionRecent, sessionTtl, events, storeVars, replicas, cur,
                   pMeta, clientVars, handled, pushLog, outcomes, sampled,
                   diversityVars>>

\* prisma.interaction.create, then handleEvent returns to the loop
interactionCreate(c) ==
    /\ pc[c] = "create"
    /\ interaction' = Append(interaction, created(interactionRow(cur[c]), now))
    /\ trace' = [trace EXCEPT ![c].s3 = "ok", ![c].result = "returned"]
    /\ cur' = [cur EXCEPT ![c] = NoEvent]
    /\ pMeta' = [pMeta EXCEPT ![c] = <<>>]
    /\ pc' = [pc EXCEPT ![c] = "brpop"]
    /\ UNCHANGED <<rankVars, cacheVars, product, merchant, now, featureStore,
                   replicas,
                   clientVars, handled, pushLog,
                   outcomes, sampled,
                   diversityVars>>

(***************************************************************************)
(* The same calls rejecting (the cache or the store is unavailable).       *)
(***************************************************************************)
\* redis.brpop rejects: the loop's catch logs it and sleeps 1 s
brpopFails(c) ==
    /\ pc[c] = "brpop"
    /\ pc' = [pc EXCEPT ![c] = "sleep"]
    /\ UNCHANGED <<rankVars, cacheVars, storeVars, replicas, cur, pMeta, clientVars,
                   historyVars,
                   diversityVars>>

\* lpush, ltrim or expire rejects
trailStepFails(c) ==
    /\ pc[c] \in {"lpush", "ltrim", "expire"}
    /\ trace' = [trace EXCEPT
                   ![c].tries = IF pc[c] = "lpush" THEN @ + 1 ELSE @,
                   ![c].s1 = "fail",
                   ![c].result = "threw"]
    /\ cur' = [cur EXCEPT ![c] = NoEvent]
    /\ pc' = [pc EXCEPT ![c] = afterTrailFailure]
    /\ UNCHANGED <<rankVars, cacheVars, storeVars, replicas, pMeta, clientVars, handled,
                   pushLog, outcomes, sampled,
                   diversityVars>>

\* product.findUnique or one of the two recordBanditOutcome calls rejects
banditStepFails(c) ==
    /\ pc[c] \in {"findUnique", "recordMerchant", "recordCategory"}
    /\ trace' = [trace EXCEPT
                   ![c].s2 = "fail",
                   ![c].result = IF afterBanditFailure = "create" THEN @
                                 ELSE "threw"]
    /\ cur' = [cur EXCEPT ![c] = IF afterBanditFailure = "create" THEN @
                                 ELSE NoEvent]
    /\ pMeta' = [pMeta EXCEPT ![c] = <<>>]
    /\ pc' = [pc EXCEPT ![c] = afterBanditFailure]
    /\ UNCHANGED <<rankVars, cacheVars, storeVars, replicas, clientVars, handled, pushLog,
                   outcomes, sampled,
                   diversityVars>>

\* interaction.create rejects
interactionCreateFails(c) ==
    /\ pc[c] = "create"
    /\ trace' = [trace EXCEPT ![c].s3 = "fail", ![c].result = "returned"]
    /\ cur' = [cur EXCEPT ![c] = NoEvent]
    /\ pMeta' = [pMeta EXCEPT ![c] = <<>>]
    /\ pc' = [pc EXCEPT ![c] = afterCreateFailure]
    /\ UNCHANGED <<rankVars, cacheVars, storeVars, replicas, clientVars, handled, pushLog,
                   outcomes, sampled,
                   diversityVars>>

\* one step of consumer c when every call answers
consumerStep(c) ==
    /\ c \in replicas
    /\ \/ brpopEmpty(c) \/ brpopEvent(c) \/ brpopBadJson(c) \/ wake(c)
       \/ lpush(c) \/ ltrim(c) \/ expire(c) \/ productFindUnique(c)
       \/ recordMerchant(c) \/ recordCategory(c) \/ interactionCreate(c)

TotalOutcomes ==
    LET RECURSIVE Sum(_)
        Sum(S) == IF S = {} THEN 0
                  ELSE LET x == CHOOSE y \in S : TRUE
                       IN  outcomes[x].succ + outcomes[x].fail + Sum(S \ {x})
    IN  Sum(BanditKeys)

\* a direct call recordBanditOutcome(key, success)
BanditRecord ==
    \E key \in BanditKeys, success \in BOOLEAN :
        /\ TotalOutcomes < MaxOutcomes
        /\ bandit' = recordBanditOutcome(bandit, key, success)
        /\ outcomes' = [outcomes EXCEPT ![key] =
                          IF success THEN [@ EXCEPT !.succ = @ + 1]
                                     ELSE [@ EXCEPT !.fail = @ + 1]]
        /\ UNCHANGED <<rankVars, sessionRecent, sessionTtl, events, storeVars, consumerVars,
                       clientVars, handled, pushLog, trace, sampled,
                   diversityVars>>

\* a call sampleMerchantBoost(merchantId)
BanditSample ==
    \E merchantId \in Merchants :
        LET key == merchantBeta(merchantId)
            ab == getAB(bandit[key])
        IN  \E v \in sampleBeta(ab.a, ab.b) :
                /\ sampled' = [merchantId |-> merchantId, a |-> ab.a, b |-> ab.b,
                               boost |-> v,
                               k |-> outcomes[key].succ, m |-> outcomes[key].fail]
                /\ UNCHANGED <<rankVars, cacheVars, storeVars, consumerVars, clientVars,
                               handled, pushLog, trace, outcomes,
                   diversityVars>>

(***************************************************************************)
(* Redis sorted sets: a function from the members to their scores.         *)
(* ZREVRANGE goes from the highest score down; members of equal score come *)
(* in descending member order.  Scores are in millionths.                  *)
(***************************************************************************)
Users == {"U1", "U2", "anon"}

EmptyZset == [m \in {} |-> 0]

ZTop(z) ==
    CHOOSE m \in DOMAIN z :
        \A n \in DOMAIN z : z[n] < z[m] \/ (z[n] = z[m] /\ n <= m)

RECURSIVE ZDescending(_)
ZDescending(z) ==
    IF DOMAIN z = {} THEN <<>>
    ELSE LET m == ZTop(z)
         IN  <<[id |-> m, score |-> z[m]]>>
             \o ZDescending([n \in DOMAIN z \ {m} |-> z[n]])

\* ZREVRANGE key start stop WITHSCORES, as the {id, score} pairs the callers
\* make of the flat reply
ZREVRANGE(z, start, stop) == LRANGE(ZDescending(z), start, stop)

\* ZADD key score member ...: one command, members added or re-scored
ZADD(z, args) ==
    [m \in DOMAIN z \cup DOMAIN args |->
        IF m \in DOMAIN args THEN args[m] ELSE z[m]]

(***************************************************************************)
(* JavaScript arrays.                                                      *)
(***************************************************************************)
Max(x, y) == IF x > y THEN x ELSE y

\* Array.prototype.slice(start, end) for integer arguments
JSslice(arr, start, end) ==
    LET len == Len(arr)
        from == IF start < 0 THEN Max(len + start, 0) ELSE Min(start, len)
        to == IF end < 0 THEN Max(len + end, 0) ELSE Min(end, len)
    IN  SubSeq(arr, from + 1, to)

\* the array of the values f[1], f[2], ..., each computed once
Array(f) == <<>> \o f

\* arr.sort((a, b) => b.score - a.score): descending, and stable.  The place
\* of arr[i] is after the items of a higher score and the earlier items of
\* the same score
sortByScore(arr) ==
    LET n == Len(arr)
        place == Array([i \in 1..n |->
                     Cardinality({j \in 1..n :
                         \/ arr[j].score > arr[i].score
                         \/ arr[j].score = arr[i].score /\ j < i}) + 1])
    IN  Array([k \in 1..n |-> arr[CHOOSE i \in 1..n : place[i] = k]])

\* Math.ceil(n * num / den)
JSceil(n, num, den) == (n * num + den - 1) \div den

(***************************************************************************)
(* The CF worker (run): it loads the interactions of the window, trains    *)
(* latent factors by SGD, persists them, and writes each user's top-K to   *)
(* the cache with three awaited commands: del, zadd, expire.               *)
(* Factors are in hundred-thousandths, weights and dot products in         *)
(* millionths, errors in thousandths; a division rounds down.              *)
(***************************************************************************)
DIM == 2
EPOCHS == 3
TOPK == 200
CF_WINDOW == 90
LOAD_LIMIT == 1000000

\* CASE "type" WHEN 'VIEW' THEN 0.5 WHEN 'CLICK' THEN 1 WHEN 'CART' THEN 3
\* WHEN 'PURCHASE' THEN 8 ELSE 0 END
typeWeight(type) ==
    CASE type = "VIEW" -> 500000
      [] type = "CLICK" -> 1000000
      [] type = "CART" -> 3000000
      [] type = "PURCHASE" -> 8000000
      [] OTHER -> 0

\* coalesce("userId", 'anon')
coalesceUser(userId) == IF userId = Undefined THEN "anon" ELSE userId

\* GROUP BY coalesce("userId", 'anon'), "productId" with SUM(CASE ...) over the
\* rows of the window: the groups in the order of their first row
\* (the table is folded by halves, in the order of its rows, the first half
\* being done before the second is begun)
RECURSIVE groupRows(_, _, _)
groupRows(table, since, groups) ==
    IF table = <<>> THEN groups
    ELSE IF Len(table) > 1
        THEN LET half == Len(table) \div 2
                 left == groupRows(SubSeq(table, 1, half), since, groups)
                 rest == SubSeq(table, half + 1, Len(table))
             IN  IF left = groups THEN groupRows(rest, since, groups)
                 ELSE groupRows(rest, since, left)
    ELSE LET r == Head(table)
             u == coalesceUser(r.userId)
             hit == {i \in 1..Len(groups) :
                        groups[i].userId = u /\ groups[i].productId = r.productId}
         IN  IF r.createdAt < since THEN groups
             ELSE IF hit = {}
                 THEN Append(groups, [userId |-> u, productId |-> r.productId,
                                      weight |-> typeWeight(r.type)])
                 ELSE [i \in 1..Len(groups) |->
                          IF i \in hit
                              THEN [groups[i] EXCEPT
                                       !.weight = @ + typeWeight(r.type)]
                              ELSE groups[i]]

\* ORDER BY weight DESC: rows of equal weight stay in the order of the groups
orderByWeight(rows) ==
    LET n == Len(rows)
        place == Array([i \in 1..n |->
                     Cardinality({j \in 1..n :
                         \/ rows[j].weight > rows[i].weight
                         \/ rows[j].weight = rows[i].weight /\ j < i}) + 1])
    IN  Array([k \in 1..n |-> rows[CHOOSE i \in 1..n : place[i] = k]])

loadInteractionsWindow(table, clock, days, limit) ==
    JSslice(orderByWeight(groupRows(table, clock - days, <<>>)), 0, limit)

\* the keys of a Map or a Set that is filled in the order of `keys`
insertionOrder(keys, seen) ==
    LET firsts == SelectSeq([i \in 1..Len(keys) |-> i],
                      LAMBDA i : /\ \A j \in 1..(i - 1) : keys[j] # keys[i]
                                 /\ \A j \in 1..Len(seen) : seen[j] # keys[i])
    IN  seen \o [k \in 1..Len(firsts) |-> keys[firsts[k]]]

\* users: user -> (product -> weight), a later row of a pair replacing an
\* earlier one (the query gives one row per pair)
usersOf(rows) ==
    LET uids == insertionOrder([i \in 1..Len(rows) |-> rows[i].userId], <<>>)
    IN  Array([k \in 1..Len(uids) |->
            [uid |-> uids[k],
             pm |-> SelectSeq(rows, LAMBDA r : r.userId = uids[k])]])

productsSetOf(rows) ==
    insertionOrder([i \in 1..Len(rows) |-> rows[i].productId], <<>>)

\* Math.random(), in thousandths: the n-th call on a stream of draws
random(stream, n) == stream[((n - 1) % Len(stream)) + 1]

\* randVec(dim): v[i] = (Math.random() - 0.5) * 0.01; it is the nth vector
\* drawn in the run
randVec(stream, nth, dim) ==
    [i \in 1..dim |-> random(stream, (nth - 1) * dim + i) - 500]

\* dot(a, b), from products in 1e-10 to millionths
dot(a, b) ==
    LET RECURSIVE sum(_)
        sum(i) == IF i = 0 THEN 0 ELSE sum(i - 1) + a[i] * b[i]
    IN  sum(Len(a)) \div 10000

\* one SGD update on a (user, product, weight) triple; both gradients are
\* taken from the values before the update
sgdStep(fac, uid, pid, weight) ==
    LET uvec == fac.user[uid]
        pvec == fac.product[pid]
        err == (weight - dot(uvec, pvec)) \div 1000
        unew == Array([k \in 1..Len(uvec) |->
                    uvec[k] + (err * pvec[k] - 10 * uvec[k]) \div 40000])
        pnew == Array([k \in 1..Len(pvec) |->
                    pvec[k] + (err * uvec[k] - 10 * pvec[k]) \div 40000])
    IN  [user |-> [fac.user EXCEPT ![uid] = unew],
         product |-> [fac.product EXCEPT ![pid] = pnew]]

\* for (const [pid, weight] of pm): the steps in the order of pm (pm is
\* folded by halves)
RECURSIVE sgdUser(_, _, _)
sgdUser(fac, uid, pm) ==
    IF pm = <<>> THEN fac
    ELSE IF Len(pm) > 1
        THEN LET half == Len(pm) \div 2
                 left == sgdUser(fac, uid, SubSeq(pm, 1, half))
                 rest == SubSeq(pm, half + 1, Len(pm))
             IN  IF left = fac THEN sgdUser(fac, uid, rest)
                 ELSE sgdUser(left, uid, rest)
    ELSE sgdStep(fac, uid, Head(pm).productId, Head(pm).weight)

\* for (const [uid, pm] of users)
RECURSIVE sgdEpoch(_, _)
sgdEpoch(fac, users) ==
    IF users = <<>> THEN fac
    ELSE LET next == sgdUser(fac, Head(users).uid, Head(users).pm)
         IN  IF next = fac THEN sgdEpoch(fac, Tail(users))
             ELSE sgdEpoch(next, Tail(users))

\* for (let epoch = 0; epoch < EPOCHS; epoch++)
RECURSIVE sgd(_, _, _)
sgd(fac, users, epochs) ==
    IF epochs = 0 THEN fac
    ELSE LET next == sgdEpoch(fac, users)
         IN  IF next = fac THEN sgd(fac, users, epochs - 1)
             ELSE sgd(next, users, epochs - 1)

\* the factors of a run on `rows`, its random draws coming from `stream`
train(rows, stream, dim) ==
    LET users == usersOf(rows)
        pids == productsSetOf(rows)
        init ==
            \* the two Maps, empty and then set key by key
            [product |-> <<>> @@ [pid \in {pids[i] : i \in 1..Len(pids)} |->
                 randVec(stream, CHOOSE i \in 1..Len(pids) : pids[i] = pid, dim)],
             user |-> <<>> @@ [uid \in {users[i].uid : i \in 1..Len(users)} |->
                 randVec(stream,
                         Len(pids) + (CHOOSE i \in 1..Len(users) :
                                          users[i].uid = uid),
                         dim)]]
    IN  sgd(init, users, EPOCHS)

\* scores.push([pid, dot(uvec, pvec)]) for every pid of productFactors
scoresOf(fac, pids, uid) ==
    Array([i \in 1..Len(pids) |->
        [id |-> pids[i], score |-> dot(fac.user[uid], fac.product[pids[i]])]])

\* variant: every score is handed to zadd, without the slice
cfArgsAll(scores) ==
    [m \in {scores[i].id : i \in 1..Len(scores)} |->
        (CHOOSE r \in {scores[i] : i \in 1..Len(scores)} : r.id = m).score]

\* scores.sort(...).slice(0, TOPK), then args: the pairs handed to zadd
cfArgs(scores) ==
    LET top == JSslice(sortByScore(scores), 0, TOPK)
    IN  [m \in {top[i].id : i \in 1..Len(top)} |->
            (CHOOSE r \in {top[i] : i \in 1..Len(top)} : r.id = m).score]

\* KEYS.userTopK is read by the ranker
getPrecomputedUserTop(cache, userId, k) ==
    IF ~Truthy(userId) THEN <<>>
    ELSE IF userId \in DOMAIN cache THEN ZREVRANGE(cache[userId], 0, k - 1)
    ELSE <<>>

\* the streams of Math.random() draws a run can get; nothing seeds them
RandomStreams == {<<900, 100, 700>>, <<100, 900, 300, 600>>, <<500, 499>>}

NoFactors == [user |-> <<>>, product |-> <<>>]

CfIdle ==
    [pc |-> "idle", runs |-> 0, rows |-> <<>>, todo |-> <<>>, pids |-> <<>>,
     factors |-> NoFactors, scores |-> <<>>]

\* the process is started (by cron): await loadInteractionsWindow(90, 1_000_000)
cfLoad ==
    /\ cf.pc = "idle"
    /\ cf.runs > 0
    /\ cf' = [CfIdle EXCEPT
                 !.pc = "train", !.runs = cf.runs - 1,
                 !.rows = loadInteractionsWindow(interaction, now, CF_WINDOW,
                                                 LOAD_LIMIT)]
    /\ UNCHANGED <<cacheVars, storeVars, consumerVars, clientVars, historyVars,
                   featureVars, committed, trained, popVars, feedVars,
                   diversityVars>>

\* the maps, the random factors and the SGD epochs, up to the first upsert
cfRun ==
    /\ cf.pc = "train"
    /\ \E stream \in RandomStreams :
       \E users \in {usersOf(cf.rows)}, pids \in {productsSetOf(cf.rows)},
          fac \in {train(cf.rows, stream, DIM)} :
        LET uids == [i \in 1..Len(users) |-> users[i].uid]
        IN  cf' = [cf EXCEPT
                      !.pc = "persist", !.todo = uids, !.pids = pids,
                      !.factors = fac,
                      !.scores = [uid \in DOMAIN fac.user |->
                                     scoresOf(fac, pids, uid)]]
    /\ UNCHANGED <<cacheVars, storeVars, consumerVars, clientVars, historyVars,
                   featureVars, committed, trained, popVars, feedVars,
                   diversityVars>>

\* prisma.featureStore.upsert for every product and every user vector
cfPersist ==
    /\ cf.pc = "persist"
    /\ LET keys == {<<"product", p>> : p \in DOMAIN cf.factors.product}
                   \cup {<<"user", u>> : u \in DOMAIN cf.factors.user}
       IN  featureStore' =
               [key \in DOMAIN featureStore \cup keys |->
                   IF key \in keys
                       THEN IF key[1] = "product" THEN cf.factors.product[key[2]]
                            ELSE cf.factors.user[key[2]]
                       ELSE featureStore[key]]
    /\ trained' = Append(trained,
                     [rows |-> cf.rows, factors |-> cf.factors,
                      top |-> [uid \in DOMAIN cf.scores |->
                                  cfArgs(cf.scores[uid])]])
    /\ cf' = [cf EXCEPT !.pc = IF cf.todo = <<>> THEN "idle" ELSE "del"]
    /\ UNCHANGED <<cacheVars, product, interaction, merchant, now, consumerVars,
                   clientVars, historyVars, featureVars, committed, popVars,
                   feedVars,
                   diversityVars>>

\* if (args.length) await redis.del(key)
cfDel ==
    /\ cf.pc = "del"
    /\ LET uid == Head(cf.todo)
           args == cfArgs(cf.scores[uid])
       IN  userTopK' = IF DOMAIN args # {}
                           THEN [userTopK EXCEPT ![uid] = EmptyZset]
                           ELSE userTopK
    /\ cf' = [cf EXCEPT !.pc = "zadd"]
    /\ UNCHANGED <<cacheVars, storeVars, consumerVars, clientVars, historyVars,
                   userTopTtl, globalTop, productMeta, committed, trained, popVars,
                   feedVars,
                   diversityVars>>

\* if (args.length) await redis.zadd(key, ...args)
cfZadd ==
    /\ cf.pc = "zadd"
    /\ LET uid == Head(cf.todo)
           args == cfArgs(cf.scores[uid])
           written == IF DOMAIN args # {} THEN ZADD(userTopK[uid], args)
                      ELSE userTopK[uid]
       IN  /\ userTopK' = [userTopK EXCEPT ![uid] = written]
           /\ committed' = [committed EXCEPT ![uid] = @ \cup {written}]
    /\ cf' = [cf EXCEPT !.pc = "expire"]
    /\ UNCHANGED <<cacheVars, storeVars, consumerVars, clientVars, historyVars,
                   userTopTtl, globalTop, productMeta, trained, popVars, feedVars,
                   diversityVars>>

\* await redis.expire(key, 24 * 3600): no effect on a key that does not exist
cfExpire ==
    /\ cf.pc = "expire"
    /\ LET uid == Head(cf.todo)
       IN  userTopTtl' = IF DOMAIN userTopK[uid] # {}
                             THEN [userTopTtl EXCEPT ![uid] = 24 * 3600]
                             ELSE userTopTtl
    /\ cf' = [cf EXCEPT !.todo = Tail(@),
                        !.pc = IF Tail(cf.todo) = <<>> THEN "idle" ELSE "del"]
    /\ UNCHANGED <<cacheVars, storeVars, consumerVars, clientVars, historyVars,
                   userTopK, globalTop, productMeta, committed, trained, popVars,
                   feedVars,
                   diversityVars>>

(***************************************************************************)
(* utils/diversity.ts: ensureDiversity, the greedy re-ranker.  A ratio is  *)
(* a pair <<num, den>>.                                                    *)
(***************************************************************************)
Count(map, key) == IF key \in DOMAIN map THEN map[key] ELSE 0

Bump(map, key) ==
    [k \in DOMAIN map \cup {key} |->
        IF k = key THEN Count(map, key) + 1 ELSE map[k]]

\* variant: a splice that leaves the array as it was
RemoveNone(arr, i) == arr

RemoveAt(arr, i) == SubSeq(arr, 1, i - 1) \o SubSeq(arr, i + 1, Len(arr))

\* lastK.every(x => x.meta.merchantId === m) && lastK.length >= k
lastViolates(out, m, k) ==
    LET lastK == JSslice(out, 0 - k, Len(out))
    IN  /\ \A j \in 1..Len(lastK) : lastK[j].meta.merchantId = m
        /\ Len(lastK) >= k

\* the index of the first pool item no constraint refuses, 0 when none
pickedIndex(pool, out, merchantCount, categoryCount, maxM, maxC, k) ==
    LET ok == {i \in 1..Len(pool) :
                /\ ~lastViolates(out, pool[i].meta.merchantId, k)
                /\ Count(merchantCount, pool[i].meta.merchantId) < maxM
                /\ Count(categoryCount, pool[i].meta.productCategoryId) < maxC}
    IN  IF ok = {} THEN 0 ELSE CHOOSE i \in ok : \A j \in ok : i <= j

RECURSIVE diversityLoop(_, _, _, _, _, _, _, _)
diversityLoop(pool, out, merchantCount, categoryCount, N, maxM, maxC, k) ==
    IF pool = <<>> \/ Len(out) >= N THEN out
    ELSE LET p == pickedIndex(pool, out, merchantCount, categoryCount,
                              maxM, maxC, k)
         IN  IF p = 0
                 \* relax: take the top of the pool, counts untouched
                 THEN diversityLoop(Tail(pool), Append(out, Head(pool)),
                                    merchantCount, categoryCount,
                                    N, maxM, maxC, k)
                 ELSE diversityLoop(RemoveAt(pool, p), Append(out, pool[p]),
                                    Bump(merchantCount, pool[p].meta.merchantId),
                                    Bump(categoryCount,
                                         pool[p].meta.productCategoryId),
                                    N, maxM, maxC, k)

ensureDiversity(items, opts) ==
    IF items = <<>> THEN items
    ELSE LET N == Len(items)
         IN  diversityLoop(items, <<>>, <<>>, <<>>, N,
                 JSceil(N, opts.maxMerchantTotalRatio[1],
                        opts.maxMerchantTotalRatio[2]),
                 JSceil(N, opts.maxCategoryTotalRatio[1],
                        opts.maxCategoryTotalRatio[2]),
                 opts.maxSameMerchantConsecutive)

\* variant: arr.pop(), the last item and the items before it
JSpop(arr) == [item |-> arr[Len(arr)], rest |-> SubSeq(arr, 1, Len(arr) - 1)]

\* arr.shift(): the first item and the items left
JSshift(arr) == [item |-> Head(arr), rest |-> Tail(arr)]

\* the state of one ensureDiversity call; relaxed holds the places of out
\* that the relaxation filled
DivIdle ==
    [pc |-> "idle", items |-> <<>>, opts |-> <<>>, pool |-> <<>>,
     out |-> <<>>, merchantCount |-> <<>>, categoryCount |-> <<>>,
     relaxed |-> {}]

\* the call, up to the first test of the while loop
divCall(items, opts) ==
    [DivIdle EXCEPT !.pc = "loop", !.items = items, !.opts = opts,
                    !.pool = items]

\* one round of while (pool.length && out.length < N)
diversityRound ==
    /\ div.pc = "loop"
    /\ div.pool # <<>>
    /\ Len(div.out) < Len(div.items)
    /\ LET N == Len(div.items)
           opts == div.opts
           p == pickedIndex(div.pool, div.out, div.merchantCount,
                            div.categoryCount,
                            JSceil(N, opts.maxMerchantTotalRatio[1],
                                   opts.maxMerchantTotalRatio[2]),
                            JSceil(N, opts.maxCategoryTotalRatio[1],
                                   opts.maxCategoryTotalRatio[2]),
                            opts.maxSameMerchantConsecutive)
       IN  IF p = 0
               \* out.push(pool.shift())
               THEN div' = [div EXCEPT
                               !.pool = JSshift(@).rest,
                               !.out = Append(@, JSshift(div.pool).item),
                               !.relaxed = @ \cup {Len(div.out) + 1}]
               ELSE div' = [div EXCEPT
                               !.pool = RemoveAt(@, p),
                               !.out = Append(@, div.pool[p]),
                               !.merchantCount =
                                   Bump(@, div.pool[p].meta.merchantId),
                               !.categoryCount =
                                   Bump(@, div.pool[p].meta.productCategoryId)]
    /\ UNCHANGED <<cacheVars, storeVars, consumerVars, clientVars, historyVars,
                   rankVars>>

\* return out, when the loop test fails (for no items: return items)
diversityReturn ==
    /\ div.pc = "loop"
    /\ div.pool = <<>> \/ Len(div.out) >= Len(div.items)
    /\ div' = [div EXCEPT !.pc = "done"]
    /\ UNCHANGED <<cacheVars, storeVars, consumerVars, clientVars, historyVars,
                   rankVars>>

(***************************************************************************)
(* services/recommender.ts.  Base scores are in millionths, final scores   *)
(* in hundred-millionths: the weights below are the source's, in           *)
(* hundredths.                                                             *)
(***************************************************************************)
DEFAULT_LIMIT == 30
CANDIDATE_K == 200
SEARCH_LIMIT == 200
GLOBAL_K == 200
CATEGORY_TAKE == 200
RECENT_STOP == 20
PAGE_FLOOR == 50

\* the store of the ranker's runs: 5 is an id no Product row has
FeedCatalog ==
    Catalog
    @@ (3 :> [id |-> 3, title |-> "red shirt", merchantId |-> "M1",
              productCategoryId |-> "C2", popularity |-> 1000000])
    @@ (4 :> [id |-> 4, title |-> "red scarf", merchantId |-> "M1",
              productCategoryId |-> "C1", popularity |-> 0])

\* what pg_trgm answers for greatest(similarity(title, q), similarity(
\* description, q)) on the rows that pass the ILIKE filter, per query
Similarity == [q \in {"red"} |-> (1 :> 600000) @@ (3 :> 400000) @@ (4 :> 200000)]

\* fuzzySearchProductIds(query, limit)
fuzzySearchProductIds(table, query, limit) ==
    IF query \notin DOMAIN Similarity THEN <<>>
    ELSE LET sim == Similarity[query]
             hits == [id \in DOMAIN sim \cap DOMAIN table |-> sim[id]]
             rows == JSslice(ZDescending(hits), 0, limit)
         IN  [i \in 1..Len(rows) |->
                 [id |-> rows[i].id, textScore |-> Min(1000000, rows[i].score)]]

getGlobalTop(z, k) == ZREVRANGE(z, 0, k - 1)

\* prisma.product.findMany({where: {productCategoryId}, orderBy: {popularity:
\* 'desc'}, take}) as [id, score] pairs, score being the popularity
findManyByCategory(table, catId, take) ==
    LET rows == {id \in DOMAIN table : table[id].productCategoryId = catId}
    IN  JSslice(ZDescending([id \in rows |-> table[id].popularity]), 0, take)

\* the Map candidatesMap: [id, baseScore] entries in insertion order
\* a map that takes every key for a new one
mapHasNever(map, id) == FALSE

mapHas(map, id) == \E i \in 1..Len(map) : map[i].id = id

mapGet(map, id) == map[CHOOSE i \in 1..Len(map) : map[i].id = id].baseScore

mapSet(map, id, baseScore) ==
    IF mapHas(map, id)
        THEN [i \in 1..Len(map) |->
                 IF map[i].id = id THEN [id |-> id, baseScore |-> baseScore]
                 ELSE map[i]]
        ELSE Append(map, [id |-> id, baseScore |-> baseScore])

\* 1) for (const r of userTop) candidatesMap.set(r.id, {baseScore: r.score})
RECURSIVE addUserTop(_, _)
addUserTop(map, rows) ==
    IF rows = <<>> THEN map
    ELSE addUserTop(mapSet(map, Head(rows).id, Head(rows).score),
                    Tail(rows))

\* variant: a text match overwrites the base score of a candidate
RECURSIVE addTextMatchesOverwrite(_, _)
addTextMatchesOverwrite(map, rows) ==
    IF rows = <<>> THEN map
    ELSE addTextMatchesOverwrite(
             mapSet(map, Head(rows).id, 50000 + (8 * Head(rows).textScore) \div 10),
             Tail(rows))

\* 2) a text match raises a candidate's base score or adds the candidate
RECURSIVE addTextMatches(_, _)
addTextMatches(map, rows) ==
    IF rows = <<>> THEN map
    ELSE LET m == Head(rows)
             s == 50000 + (8 * m.textScore) \div 10
         IN  addTextMatches(
                 IF mapHas(map, m.id)
                     THEN mapSet(map, m.id, Max(mapGet(map, m.id), s))
                     ELSE mapSet(map, m.id, s),
                 Tail(rows))

\* 3) and 4) rows of the global top-K (weight 0.6) or of the category query
\* (weight 0.5) add the ids the map does not have
RECURSIVE addAbsent(_, _, _)
addAbsent(map, rows, weight) ==
    IF rows = <<>> THEN map
    ELSE addAbsent(IF mapHas(map, Head(rows).id) THEN map
                   ELSE mapSet(map, Head(rows).id,
                               (weight * Head(rows).score) \div 10),
                   Tail(rows), weight)

metaOf(row) ==
    [title |-> row.title, merchantId |-> row.merchantId,
     productCategoryId |-> row.productCategoryId, popularity |-> row.popularity]

\* const out: Record<string, any> = {} is a plain object: out[id] of an id
\* that names a member of Object.prototype ("constructor", "toString", ...)
\* and is not a key of out is the inherited member, which is truthy.
\* PROTO_ID is the product id that stands for such a name.
PROTO_ID == 6

\* the inherited member read as a meta: it has none of the fields of a meta,
\* so merchantId and title are undefined and the typeof test of the scoring
\* loop takes its popularity for 0
inheritedMember ==
    [title |-> Undefined, merchantId |-> Undefined,
     productCategoryId |-> Undefined, popularity |-> 0]

\* variant: out is a map without inherited members
loadProductMetaOwn(cache, table, ids) ==
    LET asked == {ids[i] : i \in 1..Len(ids)}
        hit == asked \cap DOMAIN cache
        rows == (asked \ hit) \cap DOMAIN table
    IN  [out |-> [id \in hit \cup rows |->
                     IF id \in hit THEN cache[id] ELSE metaOf(table[id])],
         cache |-> [id \in DOMAIN cache \cup rows |->
                       IF id \in DOMAIN cache THEN cache[id]
                       ELSE metaOf(table[id])]]

\* loadProductMeta(ids): the metas found, and the cache after the hset calls.
\* A cached meta is the JSON text of a meta object; parsing gives it back.
\* missing = ids.filter(id => !out[id]) leaves out the ids of inherited
\* members, so the store is not asked for them.
loadProductMeta(cache, table, ids) ==
    LET asked == {ids[i] : i \in 1..Len(ids)}
        hit == asked \cap DOMAIN cache
        inherited == (asked \ hit) \cap {PROTO_ID}
        rows == (asked \ (hit \cup inherited)) \cap DOMAIN table
    IN  [out |-> [id \in hit \cup inherited \cup rows |->
                     IF id \in hit THEN cache[id]
                     ELSE IF id \in inherited THEN inheritedMember
                     ELSE metaOf(table[id])],
         cache |-> [id \in DOMAIN cache \cup rows |->
                       IF id \in DOMAIN cache THEN cache[id]
                       ELSE metaOf(table[id])]]

wCF == 45
wPop == 18
wBandit == 12
wTextSearch == 20
wTextNone == 5
wSess == 10

\* textMatches.find(t => t.id === id)?.textScore ?? 0
textScoreOf(textMatches, id) ==
    IF \E i \in 1..Len(textMatches) : textMatches[i].id = id
        THEN textMatches[CHOOSE i \in 1..Len(textMatches) :
                             textMatches[i].id = id].textScore
        ELSE 0

\* redis.lrange(KEYS.sessionRecent(sessionId), 0, 20); no list is read when
\* the request has no sessionId
recentList(trails, sessionId) ==
    IF Truthy(sessionId) /\ sessionId \in DOMAIN trails
        THEN LRANGE(trails[sessionId], 0, RECENT_STOP)
        ELSE <<>>

\* variant: the affinity counts the entries of the list that hold the id
sessionAffinityCount(trails, sessionId, id) ==
    LET list == recentList(trails, sessionId)
    IN  1000000 * Cardinality({i \in 1..Len(list) : list[i] = id})

\* list.includes(id) on lrange(sessionRecent(sessionId), 0, 20)
sessionAffinityOf(trails, sessionId, id) ==
    IF ~Truthy(sessionId) THEN 0
    ELSE LET list == recentList(trails, sessionId)
         IN  IF \E i \in 1..Len(list) : list[i] = id THEN 1000000 ELSE 0

finalScore(base, popularity, boost, textScore, affinity, searchText) ==
    wCF * base + wPop * popularity + wBandit * boost
    + (IF Truthy(searchText) THEN wTextSearch ELSE wTextNone) * textScore
    + wSess * affinity

DiversityOpts ==
    [maxSameMerchantConsecutive |-> 1, maxMerchantTotalRatio |-> <<25, 100>>,
     maxCategoryTotalRatio |-> <<40, 100>>]

\* variant: the cursor names the first item of the page
nextCursorFirst(ordered) ==
    IF ordered = <<>> THEN <<>> ELSE <<ordered[1].id>>

\* ordered.length ? ordered[ordered.length - 1].product.id : null
nextCursor(ordered) ==
    IF ordered = <<>> THEN <<>> ELSE <<ordered[Len(ordered)].id>>

\* steps 7 to 10 of getFeed: sort, re-rank, cut the page, read the rows
feedResult(results, limit, table) ==
    LET finalSorted == sortByScore(results)
        reRanked == ensureDiversity(finalSorted, DiversityOpts)
        page == JSslice(reRanked, 0, Max(limit, PAGE_FLOOR))
        pageToReturn == JSslice(page, 0, limit)
        ordered == [i \in 1..Len(pageToReturn) |->
                       [score |-> pageToReturn[i].score,
                        id |-> pageToReturn[i].id,
                        row |-> pageToReturn[i].id \in DOMAIN table]]
    IN  [ranked |-> [i \in 1..Len(reRanked) |-> reRanked[i].id],
         merchants |-> [i \in 1..Len(reRanked) |->
                           reRanked[i].meta.merchantId],
         items |-> ordered,
         cursor |-> nextCursor(ordered)]

(***************************************************************************)
(* workers/feature_worker.ts: runOnce, the popularity aggregator, one      *)
(* action per awaited call.                                                *)
(***************************************************************************)
POP_WINDOW == 30
POP_LIMIT == 50000
MERCHANT_LIMIT == 10000

\* GROUP BY "productId" with SUM(CASE ... END * "value") over the rows of the
\* window: the groups in the order of their first row
RECURSIVE groupByProduct(_, _, _)
groupByProduct(table, since, groups) ==
    IF table = <<>> THEN groups
    ELSE LET r == Head(table)
             hit == {i \in 1..Len(groups) : groups[i].id = r.productId}
             next ==
                 IF r.createdAt < since THEN groups
                 ELSE IF hit = {}
                     THEN Append(groups, [id |-> r.productId,
                                          score |-> typeWeight(r.type) * r.value])
                     ELSE [i \in 1..Len(groups) |->
                              IF i \in hit
                                  THEN [groups[i] EXCEPT
                                           !.score = @ + typeWeight(r.type) * r.value]
                                  ELSE groups[i]]
         IN  groupByProduct(Tail(table), since, next)

\* variant: the same query without its WHERE "createdAt" >= since
productPopularityRowsAllTime(table, clock) ==
    JSslice(sortByScore(groupByProduct(table, 0, <<>>)), 0, POP_LIMIT)

\* the query of computeProductPopularity: ORDER BY score DESC LIMIT 50000
productPopularityRows(table, clock) ==
    JSslice(sortByScore(groupByProduct(table, clock - POP_WINDOW, <<>>)),
            0, POP_LIMIT)

\* SUM of the type weights (no "value" here) over the rows of the window
\* whose product is a row of merchant mid
RECURSIVE merchantScore(_, _, _, _)
merchantScore(table, products, since, mid) ==
    IF table = <<>> THEN 0
    ELSE LET r == Head(table)
         IN  (IF /\ r.createdAt >= since
                 /\ r.productId \in DOMAIN products
                 /\ products[r.productId].merchantId = mid
                  THEN typeWeight(r.type) ELSE 0)
             + merchantScore(Tail(table), products, since, mid)

\* ORDER BY score DESC over the merchants; SQL leaves the order of equal scores
\* open, and every row is written to its own merchant whatever the order
RECURSIVE merchantsByScore(_)
merchantsByScore(scores) ==
    IF DOMAIN scores = {} THEN <<>>
    ELSE LET m == CHOOSE x \in DOMAIN scores :
                      \A y \in DOMAIN scores : scores[x] >= scores[y]
         IN  <<[id |-> m, score |-> scores[m]]>>
             \o merchantsByScore([n \in DOMAIN scores \ {m} |-> scores[n]])

\* the query of computeMerchantPopularity: every merchant, COALESCE(SUM, 0)
merchantPopularityRows(table, products, merchants, clock) ==
    JSslice(merchantsByScore([mid \in DOMAIN merchants |->
                merchantScore(table, products, clock - POP_WINDOW, mid)]),
            0, MERCHANT_LIMIT)

PopIdle ==
    [pc |-> "idle", runs |-> 0, rows |-> <<>>, i |-> 0, meta |-> <<>>,
     mrows |-> <<>>]

\* after the calls for a row: the next row, or computeMerchantPopularity
afterPopRow(w) == IF w.i < Len(w.rows) THEN "update" ELSE "merchantQuery"

\* the process is started (by cron): the query of computeProductPopularity
popQuery ==
    /\ pop.pc = "idle"
    /\ pop.runs > 0
    /\ LET w == [PopIdle EXCEPT !.runs = pop.runs - 1,
                                !.rows = productPopularityRows(interaction, now)]
       IN  pop' = [w EXCEPT !.pc = afterPopRow(w)]
    /\ UNCHANGED <<cacheVars, storeVars, consumerVars, clientVars, historyVars,
                   featureVars, cfVars, feedVars,
                   diversityVars>>

\* await prisma.product.update({where: {id}, data: {popularity: r.score}}):
\* it throws when no Product row has the id, and runOnce ends in its catch
popUpdate ==
    /\ pop.pc = "update"
    /\ LET r == pop.rows[pop.i + 1]
       IN  IF r.id \in DOMAIN product
               THEN /\ product' = [product EXCEPT ![r.id].popularity = r.score]
                    /\ pop' = [pop EXCEPT !.i = pop.i + 1, !.pc = "zadd"]
               ELSE /\ product' = product
                    /\ pop' = [pop EXCEPT !.pc = "failed"]
    /\ UNCHANGED <<cacheVars, interaction, merchant, now, featureStore,
                   consumerVars, clientVars, historyVars, featureVars, cfVars,
                   feedVars,
                   diversityVars>>

\* await redis.zadd(KEYS.globalTop, r.score.toString(), r.productid)
popZadd ==
    /\ pop.pc = "zadd"
    /\ LET r == pop.rows[pop.i]
       IN  globalTop' = ZADD(globalTop, (r.id :> r.score))
    /\ pop' = [pop EXCEPT !.pc = "find"]
    /\ UNCHANGED <<cacheVars, storeVars, consumerVars, clientVars, historyVars,
                   userTopK, userTopTtl, productMeta, cfVars, feedVars,
                   diversityVars>>

\* const meta = await prisma.product.findUnique(...); if (meta) ...
popFindUnique ==
    /\ pop.pc = "find"
    /\ LET meta == findUnique(product, pop.rows[pop.i].id)
       IN  pop' = [pop EXCEPT !.meta = meta,
                              !.pc = IF meta # <<>> THEN "hset"
                                     ELSE afterPopRow(pop)]
    /\ UNCHANGED <<cacheVars, storeVars, consumerVars, clientVars, historyVars,
                   featureVars, cfVars, feedVars,
                   diversityVars>>

\* await redis.hset(KEYS.productMetaHash, meta.id, JSON.stringify({...}))
popHset ==
    /\ pop.pc = "hset"
    /\ LET meta == pop.meta[1]
       IN  productMeta' =
               [id \in DOMAIN productMeta \cup {meta.id} |->
                   IF id = meta.id THEN metaOf(meta) ELSE productMeta[id]]
    /\ pop' = [pop EXCEPT !.meta = <<>>, !.pc = afterPopRow(pop)]
    /\ UNCHANGED <<cacheVars, storeVars, consumerVars, clientVars, historyVars,
                   userTopK, userTopTtl, globalTop, cfVars, feedVars,
                   diversityVars>>

\* the query of computeMerchantPopularity
popMerchantQuery ==
    /\ pop.pc = "merchantQuery"
    /\ pop' = [pop EXCEPT
                  !.mrows = merchantPopularityRows(interaction, product,
                                                   merchant, now),
                  !.pc = "merchantUpdate"]
    /\ UNCHANGED <<cacheVars, storeVars, consumerVars, clientVars, historyVars,
                   featureVars, cfVars, feedVars,
                   diversityVars>>

\* await prisma.merchant.update({data: {popularity: r.score || 0}}), row by
\* row; after the last one runOnce is finished
popMerchantUpdate ==
    /\ pop.pc = "merchantUpdate"
    /\ IF pop.mrows = <<>>
           THEN /\ pop' = [pop EXCEPT !.pc = "idle"]
                /\ merchant' = merchant
           ELSE /\ merchant' = [merchant EXCEPT
                                   ![Head(pop.mrows).id] = Head(pop.mrows).score]
                /\ pop' = [pop EXCEPT
                              !.mrows = Tail(@),
                              !.pc = IF Tail(pop.mrows) = <<>> THEN "idle"
                                     ELSE "merchantUpdate"]
    /\ UNCHANGED <<cacheVars, product, interaction, now, featureStore,
                   consumerVars, clientVars, historyVars, featureVars, cfVars,
                   feedVars,
                   diversityVars>>

(***************************************************************************)
(* getFeed, one action per awaited read.  What happens between two awaits  *)
(* (the size tests of phases 3 and 4, the `continue` on a missing meta)    *)
(* belongs to the step before it.                                          *)
(***************************************************************************)
NoParams ==
    [userId |-> Undefined, searchText |-> Undefined,
     productCategoryId |-> Undefined, cursor |-> <<>>, limit |-> <<>>,
     sessionId |-> Undefined]

NoFeed ==
    [pc |-> "idle", params |-> NoParams, limit |-> 0, userTop |-> <<>>,
     candidatesMap |-> <<>>, textMatches |-> <<>>, candidateIds |-> <<>>,
     metas |-> <<>>, results |-> <<>>, i |-> 0, read |-> {}]

NoFeedOut ==
    [calls |-> 0, params |-> NoParams, limit |-> 0, read |-> {},
     scored |-> 0, ranked |-> <<>>, merchants |-> <<>>, items |-> <<>>,
     cursor |-> <<>>, caught |-> {}, error |-> ""]

\* searchText.trim(): " " stands for a text of white space only
trim(text) == IF text = " " THEN "" ELSE text

\* if (searchText && searchText.trim().length > 0)
needsText(params) == Truthy(params.searchText) /\ trim(params.searchText) # ""

\* variant: the global top-K is read whatever the size of the map
needsGlobalAlways(map, limit) == TRUE

\* if (candidatesMap.size < limit * 3)
needsGlobal(map, limit) == Len(map) < limit * 3

\* if (productCategoryId) if (candidatesMap.size < limit * 2)
needsCategory(params, map, limit) ==
    Truthy(params.productCategoryId) /\ Len(map) < limit * 2

afterGlobal(f) ==
    IF needsCategory(f.params, f.candidatesMap, f.limit) THEN "category"
    ELSE "meta"

afterText(f) ==
    IF needsGlobal(f.candidatesMap, f.limit) THEN "global" ELSE afterGlobal(f)

afterUserTop(f) == IF needsText(f.params) THEN "text" ELSE afterText(f)

\* the next candidate at or after index `from` that has a meta
nextScored(ids, metas, from) ==
    LET has == {j \in from..Len(ids) : ids[j] \in DOMAIN metas}
    IN  IF has = {} THEN Len(ids) + 1 ELSE CHOOSE j \in has : \A k \in has : j <= k

feedCall ==
    /\ feed.pc = "idle"
    /\ feedBudget > 0
    /\ \E params \in feedRequests :
        feed' = [NoFeed EXCEPT
                    !.pc = "userTop", !.params = params,
                    !.limit = IF params.limit = <<>> THEN DEFAULT_LIMIT
                              ELSE params.limit[1]]
    /\ feedBudget' = feedBudget - 1
    /\ feedOut' = [NoFeedOut EXCEPT !.calls = feedOut.calls]
    /\ UNCHANGED <<cacheVars, storeVars, consumerVars, clientVars, historyVars,
                   featureVars, cfVars, popVars, feedRequests,
                   diversityVars>>

\* 1) await getPrecomputedUserTop(userId, CANDIDATE_K)
feedUserTop ==
    /\ feed.pc = "userTop"
    /\ LET userTop == getPrecomputedUserTop(userTopK, feed.params.userId,
                                            CANDIDATE_K)
           f == [feed EXCEPT !.userTop = userTop,
                             !.candidatesMap = addUserTop(<<>>, userTop)]
       IN  feed' = [f EXCEPT !.pc = afterUserTop(f)]
    /\ UNCHANGED <<cacheVars, storeVars, consumerVars, clientVars, historyVars,
                   featureVars, cfVars, popVars, feedOut, feedRequests, feedBudget,
                   diversityVars>>

\* 2) await fuzzySearchProductIds(searchText, 200)
feedText ==
    /\ feed.pc = "text"
    /\ LET textMatches == fuzzySearchProductIds(product, feed.params.searchText,
                                                SEARCH_LIMIT)
           f == [feed EXCEPT
                    !.textMatches = textMatches,
                    !.candidatesMap = addTextMatches(@, textMatches),
                    !.read = @ \cup {"text"}]
       IN  feed' = [f EXCEPT !.pc = afterText(f)]
    /\ UNCHANGED <<cacheVars, storeVars, consumerVars, clientVars, historyVars,
                   featureVars, cfVars, popVars, feedOut, feedRequests, feedBudget,
                   diversityVars>>

\* 3) await getGlobalTop(200)
feedGlobal ==
    /\ feed.pc = "global"
    /\ LET f == [feed EXCEPT
                    !.candidatesMap =
                        addAbsent(@, getGlobalTop(globalTop, GLOBAL_K), 6),
                    !.read = @ \cup {"global"}]
       IN  feed' = [f EXCEPT !.pc = afterGlobal(f)]
    /\ UNCHANGED <<cacheVars, storeVars, consumerVars, clientVars, historyVars,
                   featureVars, cfVars, popVars, feedOut, feedRequests, feedBudget,
                   diversityVars>>

\* 4) await prisma.product.findMany({where: {productCategoryId}, ...})
feedCategory ==
    /\ feed.pc = "category"
    /\ feed' = [feed EXCEPT
                   !.candidatesMap =
                       addAbsent(@, findManyByCategory(product,
                                        feed.params.productCategoryId,
                                        CATEGORY_TAKE), 5),
                   !.read = @ \cup {"category"},
                   !.pc = "meta"]
    /\ UNCHANGED <<cacheVars, storeVars, consumerVars, clientVars, historyVars,
                   featureVars, cfVars, popVars, feedOut, feedRequests, feedBudget,
                   diversityVars>>

\* 5) candidateIds, await loadProductMeta(candidateIds)
feedMeta ==
    /\ feed.pc = "meta"
    /\ LET keys == [i \in 1..Len(feed.candidatesMap) |-> feed.candidatesMap[i].id]
           candidateIds == JSslice(keys, 0, CANDIDATE_K)
           loaded == loadProductMeta(productMeta, product, candidateIds)
           first == nextScored(candidateIds, loaded.out, 1)
       IN  /\ feed' = [feed EXCEPT
                          !.candidateIds = candidateIds,
                          !.metas = loaded.out,
                          !.i = first,
                          !.pc = IF first > Len(candidateIds) THEN "rank"
                                 ELSE "score"]
           /\ productMeta' = loaded.cache
    /\ UNCHANGED <<cacheVars, storeVars, consumerVars, clientVars, historyVars,
                   userTopK, userTopTtl, globalTop, cfVars, popVars, feedOut,
                   feedRequests, feedBudget,
                   diversityVars>>

\* sampleMerchantBoost(meta.merchantId).catch(() => 0.5): the reply of the
\* posterior read is <<sample>>, or <<>> when the promise rejects
NEUTRAL_BOOST == 500000

boostOrZero(reply) == IF reply = <<>> THEN 0 ELSE reply[1]

boostOrNeutral(reply) == IF reply = <<>> THEN NEUTRAL_BOOST ELSE reply[1]

\* the body of one round of the scoring loop, given the outcome of the
\* posterior read; boost and caught record what the round saw
scoreRound(f, trail, reply) ==
    LET id == f.candidateIds[f.i]
        meta == f.metas[id]
        merchantBoost == boostOrNeutral(reply)
        next == nextScored(f.candidateIds, f.metas, f.i + 1)
    IN  [f EXCEPT
            !.results = Append(@,
                [id |-> id,
                 score |-> finalScore(
                     mapGet(f.candidatesMap, id), meta.popularity,
                     merchantBoost, textScoreOf(f.textMatches, id),
                     sessionAffinityOf(trail, f.params.sessionId, id),
                     f.params.searchText),
                 meta |-> meta,
                 boost |-> merchantBoost,
                 caught |-> reply = <<>>,
                 affinity |-> sessionAffinityOf(trail, f.params.sessionId, id),
                 seen |-> recentList(trail, f.params.sessionId)]),
            !.i = next,
            !.pc = IF next > Len(f.candidateIds) THEN "rank" ELSE "score"]

\* 6) one round of the scoring loop: the bandit sample and the session trail
\* are read for the candidate
feedScore ==
    /\ feed.pc = "score"
    /\ LET meta == feed.metas[feed.candidateIds[feed.i]]
           ab == getAB(hashAt(bandit, merchantBeta(meta.merchantId)))
       IN  \E merchantBoost \in sampleBeta(ab.a, ab.b) :
            feed' = scoreRound(feed, sessionRecent, <<merchantBoost>>)
    /\ UNCHANGED <<cacheVars, storeVars, consumerVars, clientVars, historyVars,
                   featureVars, cfVars, popVars, feedOut, feedRequests, feedBudget,
                   diversityVars>>

\* 6) the same round when redis.hmget of the posterior rejects: the catch
\* turns the rejection into 0.5 and the round goes on
feedScoreBanditFails ==
    /\ feed.pc = "score"
    /\ feed' = scoreRound(feed, sessionRecent, <<>>)
    /\ UNCHANGED <<cacheVars, storeVars, consumerVars, clientVars, historyVars,
                   featureVars, cfVars, popVars, feedOut, feedRequests, feedBudget,
                   diversityVars>>

\* a rejected cache read that nothing catches rejects the promise of getFeed:
\* the call ends without a result, at names the read that failed
rejectedAt(f, out, at) ==
    [NoFeedOut EXCEPT !.calls = out.calls + 1, !.params = f.params,
                      !.limit = f.limit, !.read = f.read, !.error = at]

\* 1) redis.zrevrange of the user's top-K rejects (read only for a userId)
feedUserTopFails ==
    /\ feed.pc = "userTop"
    /\ Truthy(feed.params.userId)
    /\ feedOut' = rejectedAt(feed, feedOut, "userTop")
    /\ feed' = NoFeed
    /\ UNCHANGED <<cacheVars, storeVars, consumerVars, clientVars, historyVars,
                   featureVars, cfVars, popVars, feedRequests, feedBudget,
                   diversityVars>>

\* 3) redis.zrevrange of the global top-K rejects
feedGlobalFails ==
    /\ feed.pc = "global"
    /\ feedOut' = rejectedAt(feed, feedOut, "global")
    /\ feed' = NoFeed
    /\ UNCHANGED <<cacheVars, storeVars, consumerVars, clientVars, historyVars,
                   featureVars, cfVars, popVars, feedRequests, feedBudget,
                   diversityVars>>

\* 5) redis.hmget of the product meta rejects (read only for some candidate)
feedMetaFails ==
    /\ feed.pc = "meta"
    /\ Len(feed.candidatesMap) > 0
    /\ feedOut' = rejectedAt(feed, feedOut, "meta")
    /\ feed' = NoFeed
    /\ UNCHANGED <<cacheVars, storeVars, consumerVars, clientVars, historyVars,
                   featureVars, cfVars, popVars, feedRequests, feedBudget,
                   diversityVars>>

\* 6) redis.lrange of the session trail rejects (read only for a sessionId)
feedTrailFails ==
    /\ feed.pc = "score"
    /\ Truthy(feed.params.sessionId)
    /\ feedOut' = rejectedAt(feed, feedOut, "trail")
    /\ feed' = NoFeed
    /\ UNCHANGED <<cacheVars, storeVars, consumerVars, clientVars, historyVars,
                   featureVars, cfVars, popVars, feedRequests, feedBudget,
                   diversityVars>>

\* 7) to 10) sort, ensureDiversity, page, await prisma.product.findMany, return
feedReturn ==
    /\ feed.pc = "rank"
    /\ LET result == feedResult(feed.results, feed.limit, product)
       IN  feedOut' = [calls |-> feedOut.calls + 1, params |-> feed.params,
                       limit |-> feed.limit, read |-> feed.read,
                       scored |-> Len(feed.results),
                       ranked |-> result.ranked,
                       merchants |-> result.merchants,
                       items |-> result.items, cursor |-> result.cursor,
                       caught |-> {feed.results[i].id : i \in
                                   {j \in 1..Len(feed.results) :
                                       feed.results[j].caught}},
                       error |-> ""]
    /\ feed' = NoFeed
    /\ UNCHANGED <<cacheVars, storeVars, consumerVars, clientVars, historyVars,
                   featureVars, cfVars, popVars, feedRequests, feedBudget,
                   diversityVars>>

RankIdle ==
    /\ userTopK = [u \in Users |-> EmptyZset]
    /\ userTopTtl = [u \in Users |-> 0]
    /\ globalTop = EmptyZset
    /\ productMeta = <<>>
    /\ cf = CfIdle
    /\ committed = [u \in Users |-> {EmptyZset}]
    /\ trained = <<>>
    /\ pop = PopIdle
    /\ feed = NoFeed
    /\ feedOut = NoFeedOut
    /\ feedRequests = {}
    /\ feedBudget = 0
    /\ div = DivIdle

(***************************************************************************)
(* Initial states.  A run starts from the state a single consumer left     *)
(* after `warm` events of one session (none: a fresh cache and store).     *)
(***************************************************************************)
\* the i-th event of the warm-up: product ids 2, 2, 1, 2, 2, 1, ...
WarmEvent(i) ==
    [seq |-> i, userId |-> "U1", sessionId |-> "S1",
     productId |-> ((i * i) % 3) + 1,
     type |-> CASE i % 4 = 0 -> "VIEW" [] i % 4 = 1 -> "CLICK"
                [] i % 4 = 2 -> "CART" [] OTHER -> "PURCHASE"]

WarmEvents(n) == [i \in 1..n |-> WarmEvent(i)]

\* the state a single consumer left in world w after `warm` events
InitAfter(w, warm, reqs, reps) ==
        /\ bandit = w.bandit
        /\ sessionRecent = w.sessionRecent
        /\ sessionTtl = w.sessionTtl
        /\ events = <<>>
        /\ product = w.product
        /\ interaction = w.interaction
        /\ merchant = w.merchant
        /\ now = w.now
        /\ featureStore = w.featureStore
        /\ replicas = reps
        /\ pc = [c \in Consumers |-> IF c \in reps THEN "brpop" ELSE "off"]
        /\ cur = [c \in Consumers |-> NoEvent]
        /\ pMeta = [c \in Consumers |-> <<>>]
        /\ requests = reqs
        /\ budget = IF reqs = {} THEN 0 ELSE MaxEvents
        /\ posted = warm
        /\ response = NoResponse
        /\ handled = w.handled
        /\ pushLog = w.pushLog
        /\ trace = [c \in Consumers |-> NoTrace]
        /\ outcomes = [key \in BanditKeys |-> [succ |-> 0, fail |-> 0]]
        /\ sampled = NoSample

InitConsumers(fresh, warm, reqs, reps) ==
    InitAfter(runSequential(fresh, WarmEvents(warm)), warm, reqs, reps)

InitWorld(warm, reqs, reps) ==
    InitConsumers(FreshWorld, warm, reqs, reps) /\ RankIdle

Post(body) == [method |-> "POST", body |-> body]

Event(s, p, t) == [userId |-> "U1", sessionId |-> s, productId |-> p, type |-> t]

\* the requests of a run about bandit updates: every type on products in and
\* out of the store, and requests the handler refuses
EventRequests ==
    {Post(Event("S1", p, t)) : p \in ProductIds, t \in EventTypes}
    \cup {[method |-> "GET", body |-> Event("S1", 1, "VIEW")],
          Post(Event("S1", 1, "LIKE")),
          Post(Event(Undefined, 1, "VIEW"))}

\* fewer of them, for the runs in which two consumers interleave
FewEventRequests ==
    {Post(Event("S1", 1, "CLICK")), Post(Event("S1", 1, "VIEW")),
     Post(Event("S1", 1, "CART")), Post(Event("S1", 2, "PURCHASE")),
     Post(Event("S1", 3, "CLICK"))}

\* the requests of a run about session trails: with and without a session
TrailRequests ==
    {Post(Event(s, p, "VIEW")) : s \in {"S1", ""}, p \in {1, 2}}
    \cup {Post(Event("S2", 1, "VIEW"))}

WarmRuns == {0, 49, 58}

ReplicaSets == {{"c1"}, {"c1", "c2"}}

InitBandit == InitWorld(0, {}, {})

InitEvents ==
    \/ InitWorld(0, EventRequests, {"c1"})
    \/ InitWorld(0, FewEventRequests, Consumers)

InitTrail ==
    \E warm \in WarmRuns, reps \in ReplicaSets :
        InitWorld(warm, TrailRequests, reps)

FaultRequests ==
    {Post(Event("S1", 1, "CLICK")), Post(Event("", 2, "VIEW")),
     Post(Event("S1", 3, "CART"))}

LiveRequests == {Post(Event("S1", 1, "CLICK")), Post(Event("", 3, "VIEW"))}

InitFaults == \E reps \in ReplicaSets : InitWorld(0, FaultRequests, reps)

InitLive == \E reps \in ReplicaSets : InitWorld(0, LiveRequests, reps)

NextBandit == BanditRecord \/ BanditSample

NextEvents ==
    \/ handler
    \/ foreignPush
    \/ \E c \in replicas : brpopEmpty(c)
    \/ \E c \in replicas : brpopEvent(c)
    \/ \E c \in replicas : brpopBadJson(c)
    \/ \E c \in replicas : wake(c)
    \/ \E c \in replicas : lpush(c)
    \/ \E c \in replicas : ltrim(c)
    \/ \E c \in replicas : expire(c)
    \/ \E c \in replicas : productFindUnique(c)
    \/ \E c \in replicas : recordMerchant(c)
    \/ \E c \in replicas : recordCategory(c)
    \/ \E c \in replicas : interactionCreate(c)

SpecBandit == InitBandit /\ [][NextBandit]_vars

SpecEvents == InitEvents /\ [][NextEvents]_vars

SpecTrail == InitTrail /\ [][NextEvents]_vars

NextFaults ==
    \/ NextEvents
    \/ \E c \in replicas : brpopFails(c)
    \/ \E c \in replicas : trailStepFails(c)
    \/ \E c \in replicas : banditStepFails(c)
    \/ \E c \in replicas : interactionCreateFails(c)

SpecFaults == InitFaults /\ [][NextFaults]_vars

\* every runLoop that runs keeps running, and its awaited calls answer
SpecLive ==
    InitLive /\ [][NextEvents]_vars
    /\ \A c \in Consumers : WF_vars(consumerStep(c))

(***************************************************************************)
(* Runs of the CF worker next to getFeed readers, and runs of getFeed.     *)
(***************************************************************************)
MaxFeeds == 1
MaxLimit == 3

FeedWorld == [FreshWorld EXCEPT !.product = FeedCatalog]

Params(u, text, cat, lim, s) ==
    [userId |-> u, searchText |-> text, productCategoryId |-> cat,
     cursor |-> <<>>, limit |-> lim, sessionId |-> s]

\* what the key of a user holds before the worker runs: nothing, or the set
\* of an earlier run
OldTops == {EmptyZset, (1 :> 900000) @@ (4 :> 400000)}

\* an Interaction row as the event consumer writes it, created on `day`
Row(u, p, t, day) ==
    created(interactionRow([seq |-> 0, userId |-> u, sessionId |-> "S1",
                            productId |-> p, type |-> t]), day)

\* the clock when the workers run
Today == 100

\* Interaction tables: rows inside the 30 and 90 day windows, on their first
\* day, and before them; rows of a user, of another, and of no user
Interactions ==
    {<<Row("U1", 1, "CLICK", 99), Row("U1", 2, "PURCHASE", 99),
       Row("U2", 1, "VIEW", 50), Row("U2", 3, "PURCHASE", 5)>>,
     <<Row(Undefined, 2, "CART", 60), Row("U1", 2, "VIEW", 70),
       Row("U1", 2, "CLICK", 71), Row("U2", 4, "CART", 10),
       Row("U2", 1, "PURCHASE", 9)>>}

WorkerWorld(table) ==
    [FeedWorld EXCEPT !.interaction = table, !.now = Today]

InitCF ==
    /\ \E table \in Interactions :
        InitConsumers(WorkerWorld(table), 0, {}, {})
    /\ userTopK \in {[u \in Users |-> IF u = "anon" THEN EmptyZset ELSE old[u]] :
                        old \in [{"U1", "U2"} -> OldTops]}
    /\ userTopTtl = [u \in Users |-> IF DOMAIN userTopK[u] = {} THEN 0
                                     ELSE 24 * 3600]
    /\ globalTop = EmptyZset
    /\ productMeta = <<>>
    /\ cf = [CfIdle EXCEPT !.runs = 1]
    /\ committed = [u \in Users |-> {userTopK[u]}]
    /\ trained = <<>>
    /\ pop = PopIdle
    /\ feed = NoFeed
    /\ feedOut = NoFeedOut
    /\ feedRequests =
        {Params(u, Undefined, Undefined, <<1>>, Undefined) : u \in {"U1", "U2"}}
    /\ feedBudget = MaxFeeds
    /\ div = DivIdle

UserTops ==
    {EmptyZset, (1 :> 900000) @@ (2 :> 400000) @@ (3 :> 700000),
     (5 :> 800000) @@ (1 :> -200000)}

GlobalTops ==
    {EmptyZset,
     (1 :> 10000000) @@ (2 :> 5000000) @@ (4 :> 5000000) @@ (5 :> 500000)}

\* the product:meta hash: empty, or holding product 1 and a product (5) whose
\* row the store no longer has
MetaCaches ==
    {<<>>,
     (1 :> metaOf(FeedCatalog[1]))
     @@ (5 :> [title |-> "old hat", merchantId |-> "M2",
               productCategoryId |-> "C2", popularity |-> 300000])}

\* signed-in requests carry a session, anonymous ones do not, but for one
FeedRequests ==
    {Params(u, text, cat, lim, IF u = "U1" THEN "S1" ELSE Undefined) :
        u \in {Undefined, "U1"}, text \in {Undefined, "red"},
        cat \in {Undefined, "C1"},
        lim \in {<<>>} \cup {<<n>> : n \in 1..MaxLimit}}
    \cup {Params(Undefined, Undefined, Undefined, <<1>>, "S1"),
          Params("U1", " ", Undefined, <<1>>, Undefined)}
    \* requests for a next page: the cursor is the last id of a page
    \cup {[Params("U1", Undefined, Undefined, <<1>>, "S1") EXCEPT
               !.cursor = <<id>>] : id \in {1, 2}}

\* the state before a feed request: the cache as some earlier worker runs and
\* requests left it, reqs the requests a client may send
InitFeedWith(reqs) ==
    \* three events were handled before: the trail of S1 is <<1, 2, 2>>
    /\ InitConsumers(FeedWorld, 3, {}, {})
    /\ userTopK \in {[u \in Users |-> IF u = "U1" THEN z ELSE EmptyZset] :
                        z \in UserTops}
    /\ userTopTtl = [u \in Users |-> 0]
    /\ globalTop \in GlobalTops
    /\ productMeta \in MetaCaches
    /\ cf = CfIdle
    /\ committed = [u \in Users |-> {userTopK[u]}]
    /\ trained = <<>>
    /\ pop = PopIdle
    /\ feed = NoFeed
    /\ feedOut = NoFeedOut
    /\ feedRequests = reqs
    /\ feedBudget = MaxFeeds
    /\ div = DivIdle

InitFeed == InitFeedWith(FeedRequests)

\* requests of a user whose top-K holds an id that names a member of
\* Object.prototype and has no meta in the cache; the store may or may not
\* have a row of that id
KeyTops == {(PROTO_ID :> 800000) @@ (1 :> 500000), (PROTO_ID :> 100000)}

KeyCatalogs ==
    {FeedCatalog,
     FeedCatalog @@ (PROTO_ID :> [id |-> PROTO_ID, title |-> "red hat",
                                  merchantId |-> "M2",
                                  productCategoryId |-> "C1",
                                  popularity |-> 700000])}

InitFeedKeys ==
    /\ \E table \in KeyCatalogs :
        InitConsumers([FeedWorld EXCEPT !.product = table], 3, {}, {})
    /\ userTopK \in {[u \in Users |-> IF u = "U1" THEN z ELSE EmptyZset] :
                        z \in KeyTops}
    /\ userTopTtl = [u \in Users |-> 0]
    /\ globalTop = EmptyZset
    /\ productMeta \in MetaCaches
    /\ cf = CfIdle
    /\ committed = [u \in Users |-> {userTopK[u]}]
    /\ trained = <<>>
    /\ pop = PopIdle
    /\ feed = NoFeed
    /\ feedOut = NoFeedOut
    /\ feedRequests =
        {Params("U1", text, cat, <<lim>>, "S1") :
            text \in {Undefined, "red"}, cat \in {Undefined, "C1"},
            lim \in 1..MaxLimit}
    /\ feedBudget = 1
    /\ div = DivIdle


\* requests sent while the cache may be unreachable
FaultyFeedRequests ==
    {Params(u, Undefined, cat, <<MaxLimit>>, IF u = "U1" THEN "S1" ELSE Undefined) :
        u \in {Undefined, "U1"}, cat \in {Undefined, "C1"}}

InitFeedFaults == InitFeedWith(FaultyFeedRequests)

NextFeed ==
    \/ feedCall
    \/ feedUserTop
    \/ feedText
    \/ feedGlobal
    \/ feedCategory
    \/ feedMeta
    \/ feedScore
    \/ feedReturn

NextCF ==
    \/ cfLoad
    \/ cfRun
    \/ cfPersist
    \/ cfDel
    \/ cfZadd
    \/ cfExpire
    \/ feedCall
    \/ feedUserTop
    \/ feedGlobal
    \/ feedMeta
    \/ feedScore
    \/ feedReturn

\* Interaction tables for the popularity aggregator, run at Today: its window
\* starts on day 70.  Rows of every type on both sides of the window, a
\* product with rows only before it, and a row of a product the store lacks
PopInteractions ==
    {<<>>,
     <<Row("U1", 1, "VIEW", 99), Row("U1", 1, "CLICK", 98),
       Row("U2", 1, "CART", 70), Row(Undefined, 1, "PURCHASE", 75),
       Row("U2", 1, "PURCHASE", 69), Row("U1", 2, "CART", 69),
       Row("U2", 2, "VIEW", 10)>>,
     <<Row("U1", 2, "PURCHASE", 99), Row("U1", 2, "PURCHASE", 71),
       Row("U1", 1, "CLICK", 99), Row("U1", 1, "WISHLIST", 99),
       Row("U2", 2, "VIEW", 80)>>,
     <<Row("U2", 2, "CLICK", 90), Row("U1", 3, "VIEW", 99),
       Row("U1", 1, "VIEW", 99)>>}

\* visitors without a user, a search or a category
AnonymousRequests ==
    {Params(Undefined, Undefined, Undefined, <<n>>, Undefined) : n \in 1..MaxLimit}

\* a store of two products of two merchants and an empty cache; the
\* aggregator is started once while visitors ask for the feed
InitPop ==
    /\ \E table \in PopInteractions :
        InitConsumers([FreshWorld EXCEPT !.interaction = table, !.now = Today],
                      0, {}, {})
    /\ userTopK = [u \in Users |-> EmptyZset]
    /\ userTopTtl = [u \in Users |-> 0]
    /\ globalTop = EmptyZset
    /\ productMeta = <<>>
    /\ cf = CfIdle
    /\ committed = [u \in Users |-> {userTopK[u]}]
    /\ trained = <<>>
    /\ pop = [PopIdle EXCEPT !.runs = 1]
    /\ feed = NoFeed
    /\ feedOut = NoFeedOut
    /\ feedRequests = AnonymousRequests
    /\ feedBudget = MaxFeeds
    /\ div = DivIdle

NextPop ==
    \/ popQuery
    \/ popUpdate
    \/ popZadd
    \/ popFindUnique
    \/ popHset
    \/ popMerchantQuery
    \/ popMerchantUpdate
    \/ feedCall
    \/ feedUserTop
    \/ feedGlobal
    \/ feedMeta
    \/ feedScore
    \/ feedReturn

SpecPop == InitPop /\ [][NextPop]_vars

\* Scored candidates as the scoring loop leaves them for the re-ranker: up to
\* MaxItems products with distinct scores, each of one of three merchants,
\* all of one category or each of its own
MaxItems == 5

ScoredMerchants == {"M1", "M2", "M3"}

ScoredLists ==
    UNION {{[i \in 1..n |->
                [id |-> i, score |-> (n - i + 1) * 1000000,
                 meta |-> [title |-> "item", merchantId |-> ms[i],
                           productCategoryId |-> IF oneCategory THEN 0 ELSE i,
                           popularity |-> 0],
                 boost |-> NEUTRAL_BOOST, caught |-> FALSE]] :
            ms \in [1..n -> ScoredMerchants], oneCategory \in BOOLEAN} :
           n \in 4..MaxItems}

\* getFeed after its scoring loop, about to sort and re-rank
InitRanked ==
    /\ InitConsumers(FeedWorld, 0, {}, {})
    /\ userTopK = [u \in Users |-> EmptyZset]
    /\ userTopTtl = [u \in Users |-> 0]
    /\ globalTop = EmptyZset
    /\ productMeta = <<>>
    /\ cf = CfIdle
    /\ committed = [u \in Users |-> {userTopK[u]}]
    /\ trained = <<>>
    /\ pop = PopIdle
    /\ \E results \in ScoredLists :
        feed = [NoFeed EXCEPT
                   !.pc = "rank",
                   !.params = Params(Undefined, Undefined, Undefined,
                                     <<Len(results)>>, Undefined),
                   !.limit = Len(results),
                   !.candidateIds = [i \in 1..Len(results) |-> results[i].id],
                   !.results = results,
                   !.i = Len(results) + 1]
    /\ feedOut = NoFeedOut
    /\ feedRequests = {}
    /\ feedBudget = 0
    /\ div = DivIdle

NextRanked == feedReturn

SpecRanked == InitRanked /\ [][NextRanked]_vars

\* how often cron starts the trainer
MaxRuns == 2

\* a table of TOPK + 1 products seen by two users on the day before the run
ManyProducts ==
    [i \in 1..(TOPK + 1) |->
        Row(IF i % 3 = 0 THEN "U2" ELSE "U1", i,
            CASE i % 4 = 0 -> "VIEW" [] i % 4 = 1 -> "CLICK"
              [] i % 4 = 2 -> "CART" [] OTHER -> "PURCHASE", 99)]

TrainTables == Interactions \cup {ManyProducts}

\* the trainer alone, started MaxRuns times over the same table (once over
\* the large one); the cache holds what an earlier run left
InitTrain ==
    /\ \E table \in TrainTables :
        /\ InitConsumers(WorkerWorld(table), 0, {}, {})
        /\ cf = [CfIdle EXCEPT !.runs = IF table = ManyProducts THEN 1
                                        ELSE MaxRuns]
    /\ \E old \in OldTops :
        userTopK = [u \in Users |-> IF u = "U1" THEN old ELSE EmptyZset]
    /\ userTopTtl = [u \in Users |-> IF DOMAIN userTopK[u] = {} THEN 0
                                     ELSE 24 * 3600]
    /\ globalTop = EmptyZset
    /\ productMeta = <<>>
    /\ committed = [u \in Users |-> {userTopK[u]}]
    /\ trained = <<>>
    /\ pop = PopIdle
    /\ feed = NoFeed
    /\ feedOut = NoFeedOut
    /\ feedRequests = {}
    /\ feedBudget = 0
    /\ div = DivIdle

NextTrain ==
    \/ cfLoad
    \/ cfRun
    \/ cfPersist
    \/ cfDel
    \/ cfZadd
    \/ cfExpire

SpecTrain == InitTrain /\ [][NextTrain]_vars

\* lists of one merchant only, from none to twice MaxItems items
OneMerchantLists ==
    {[i \in 1..n |->
         [id |-> i, score |-> (n - i + 1) * 1000000,
          meta |-> [title |-> "item", merchantId |-> "M1",
                    productCategoryId |-> IF oneCategory THEN 0 ELSE i,
                    popularity |-> 0],
          boost |-> NEUTRAL_BOOST, caught |-> FALSE]] :
        n \in 0..(2 * MaxItems), oneCategory \in BOOLEAN}

\* ensureDiversity called on a list sorted by score
InitDiversity ==
    /\ InitConsumers(FeedWorld, 0, {}, {})
    /\ userTopK = [u \in Users |-> EmptyZset]
    /\ userTopTtl = [u \in Users |-> 0]
    /\ globalTop = EmptyZset
    /\ productMeta = <<>>
    /\ cf = CfIdle
    /\ committed = [u \in Users |-> {userTopK[u]}]
    /\ trained = <<>>
    /\ pop = PopIdle
    /\ feed = NoFeed
    /\ feedOut = NoFeedOut
    /\ feedRequests = {}
    /\ feedBudget = 0
    /\ \E items \in ScoredLists \cup OneMerchantLists :
        div = divCall(items, DiversityOpts)

NextDiversity ==
    \/ diversityRound
    \/ diversityReturn

SpecDiversity == InitDiversity /\ [][NextDiversity]_vars

\* the loop is a loop of one thread: a round that can be taken is taken
SpecDiversityLive == SpecDiversity /\ WF_vars(NextDiversity)

\* the feed while redis may reject any single command
NextFeedFaults ==
    \/ feedCall
    \/ feedUserTop
    \/ feedUserTopFails
    \/ feedGlobal
    \/ feedGlobalFails
    \/ feedCategory
    \/ feedMeta
    \/ feedMetaFails
    \/ feedScore
    \/ feedScoreBanditFails
    \/ feedTrailFails
    \/ feedReturn

SpecFeed == InitFeed /\ [][NextFeed]_vars

\* a session that looked at product 1 once and then `later` times at
\* product 2: product 1 is at place later + 1 of the trail
TrailEvents(later) ==
    [i \in 1..(later + 1) |->
        [seq |-> i, userId |-> "U1", sessionId |-> "S1",
         productId |-> IF i = 1 THEN 1 ELSE 2, type |-> "VIEW"]]

\* requests on trails that hold product 1 only at place 20, 21 or 22
InitFeedTrail ==
    /\ \E later \in (RECENT_STOP - 1)..(RECENT_STOP + 1) :
        InitAfter(runSequential(FeedWorld, TrailEvents(later)), later + 1,
                  {}, {})
    /\ userTopK = [u \in Users |->
                     IF u = "U1" THEN (1 :> 900000) @@ (2 :> 400000)
                     ELSE EmptyZset]
    /\ userTopTtl = [u \in Users |-> 0]
    /\ globalTop = EmptyZset
    /\ productMeta = <<>>
    /\ cf = CfIdle
    /\ committed = [u \in Users |-> {userTopK[u]}]
    /\ trained = <<>>
    /\ pop = PopIdle
    /\ feed = NoFeed
    /\ feedOut = NoFeedOut
    /\ feedRequests =
        {Params("U1", text, cat, <<MaxLimit>>, s) :
            text \in {Undefined, "red"}, cat \in {Undefined, "C1"},
            s \in {Undefined, "S1"}}
    /\ feedBudget = 1
    /\ div = DivIdle

SpecFeedTrail == InitFeedTrail /\ [][NextFeed]_vars

\* one getFeed request of a session while a consumer handles the events of
\* that session: clicks on product 3, a candidate of the request
RaceRequests == {Post(Event("S1", 3, "CLICK"))}

InitFeedRace ==
    /\ InitAfter(runSequential(FeedWorld, WarmEvents(3)), 3, RaceRequests,
                 {"c1"})
    /\ userTopK = [u \in Users |->
                     IF u = "U1" THEN (1 :> 900000) @@ (3 :> 700000)
                     ELSE EmptyZset]
    /\ userTopTtl = [u \in Users |-> 0]
    /\ globalTop = EmptyZset
    /\ productMeta = <<>>
    /\ cf = CfIdle
    /\ committed = [u \in Users |-> {userTopK[u]}]
    /\ trained = <<>>
    /\ pop = PopIdle
    /\ feed = NoFeed
    /\ feedOut = NoFeedOut
    /\ feedRequests = {Params("U1", Undefined, Undefined, <<1>>, "S1")}
    /\ feedBudget = 1
    /\ div = DivIdle

feedStep ==
    \/ feedUserTop
    \/ feedGlobal
    \/ feedMeta
    \/ feedScore
    \/ feedReturn

NextFeedRace ==
    \/ handler
    \/ \E c \in replicas : brpopEmpty(c)
    \/ \E c \in replicas : brpopEvent(c)
    \/ \E c \in replicas : wake(c)
    \/ \E c \in replicas : lpush(c)
    \/ \E c \in replicas : ltrim(c)
    \/ \E c \in replicas : expire(c)
    \/ \E c \in replicas : productFindUnique(c)
    \/ \E c \in replicas : recordMerchant(c)
    \/ \E c \in replicas : recordCategory(c)
    \/ \E c \in replicas : interactionCreate(c)
    \/ feedCall
    \/ feedStep

\* every awaited read of the request is answered: a request that is under
\* way (a step of it is enabled exactly then) takes its next step.  This is
\* weak fairness of feedStep, written with the condition that enables it.
FeedFair == []<>(feed.pc = "idle") \/ []<><<feedStep>>_vars

SpecFeedRace == InitFeedRace /\ [][NextFeedRace]_vars /\ FeedFair

SpecFeedKeys == InitFeedKeys /\ [][NextFeed]_vars

SpecFeedFaults == InitFeedFaults /\ [][NextFeedFaults]_vars

SpecCF == InitCF /\ [][NextCF]_vars

(***************************************************************************)
(* C2: after k successes and m failures recorded on a key that did not     *)
(* exist, the posterior getAB reads, and sampleMerchantBoost samples from, *)
(* is (1+k, 1+m).                                                          *)
(***************************************************************************)
BanditRoundTrip ==
    /\ \A key \in BanditKeys :
          getAB(bandit[key]) =
              [a |-> 1 + outcomes[key].succ, b |-> 1 + outcomes[key].fail]
    /\ sampled.merchantId # "" =>
          /\ sampled.a = 1 + sampled.k
          /\ sampled.b = 1 + sampled.m

(***************************************************************************)
(* History read-outs used by the properties below.                         *)
(***************************************************************************)
Idle(c) == pc[c] \in {"off", "brpop", "sleep"}
AllIdle == \A c \in Consumers : Idle(c)

Reverse(seq) == [i \in 1..Len(seq) |-> seq[Len(seq) + 1 - i]]
Take(seq, n) == SubSeq(seq, 1, Min(n, Len(seq)))

\* the product ids of the handled events of session s, oldest first
RECURSIVE IdsOf(_, _)
IdsOf(evs, s) ==
    IF evs = <<>> THEN <<>>
    ELSE (IF Head(evs).sessionId = s THEN <<Head(evs).productId>> ELSE <<>>)
         \o IdsOf(Tail(evs), s)

\* the stored count of a hash field, 0 when the field does not exist
Field(h, f) == IF f \in DOMAIN h THEN h[f] ELSE 0

\* how many handled events of types `types` are on a product in the store whose
\* column `col` is `id`
HandledOn(col, id, types) ==
    Cardinality({i \in 1..Len(handled) :
        /\ handled[i].productId \in DOMAIN product
        /\ product[handled[i].productId][col] = id
        /\ handled[i].type \in types})

(***************************************************************************)
(* C3: in every reachable state, between the cache calls of handleEvent    *)
(* and with several consumers on one session included, each session trail  *)
(* holds at most 50 product ids.                                           *)
(***************************************************************************)
TrailAtMostFifty ==
    \A s \in SessionIds : Len(sessionRecent[s]) <= TRAIL_STOP + 1

(***************************************************************************)
(* C4: after a single consumer has processed n events of a session, the    *)
(* trail holds exactly min(n, 50) ids: the most recently processed product *)
(* ids, newest first.                                                      *)
(***************************************************************************)
TrailIsNewestFifty ==
    (replicas = {"c1"} /\ Idle("c1")) =>
        \A s \in SessionIds :
            sessionRecent[s] = Take(Reverse(IdsOf(handled, s)), 50)

\* 60 events of S1 processed, the last two of them in this run: 50 ids are
\* kept and the newest is at the head
TrailAfterSixty ==
    /\ replicas = {"c1"} /\ Idle("c1")
    /\ Len(IdsOf(handled, "S1")) = 60
    /\ posted >= 60 /\ handled[59].productId # handled[60].productId
    /\ Len(sessionRecent["S1"]) = 50
    /\ sessionRecent["S1"][1] = handled[Len(handled)].productId

(***************************************************************************)
(* C5 as claimed: the first two entries of a session trail are different   *)
(* product ids.                                                            *)
(***************************************************************************)
TrailHeadNeverRepeats ==
    \A s \in SessionIds :
        Len(sessionRecent[s]) >= 2 => sessionRecent[s][1] # sessionRecent[s][2]

(***************************************************************************)
(* C5 as amended: the first two entries of a session trail are the product *)
(* ids of the two most recent pushes on it, newest first, so they are      *)
(* equal exactly when those two events carried the same productId.         *)
(***************************************************************************)
TrailHeadIsLastTwoPushes ==
    \A s \in SessionIds :
        LET n == Len(pushLog[s])
        IN  Len(sessionRecent[s]) >= 2 =>
                /\ n >= 2
                /\ sessionRecent[s][1] = pushLog[s][n]
                /\ sessionRecent[s][2] = pushLog[s][n - 1]

\* two successive events of S1 with the same productId were pushed in this run
TrailHeadRepeated ==
    /\ Len(pushLog["S1"]) >= 2
    /\ Len(handled) >= 2
    /\ handled[Len(handled)].seq > 58
    /\ handled[Len(handled) - 1].seq > 58
    /\ AllIdle
    /\ sessionRecent["S1"][1] = sessionRecent["S1"][2]

(***************************************************************************)
(* C6: once handleEvent has returned for every popped event, the stored    *)
(* field a of a merchant (category) key counts the CLICK and PURCHASE      *)
(* events on the products of that merchant (category) that are in the      *)
(* store, and field b counts the VIEW events on them: CART events and      *)
(* events on products not in the store changed neither.                    *)
(***************************************************************************)
BanditCountsOutcomes ==
    AllIdle =>
        /\ \A m \in Merchants :
              /\ Field(bandit[merchantBeta(m)], "a")
                    = HandledOn("merchantId", m, {"CLICK", "PURCHASE"})
              /\ Field(bandit[merchantBeta(m)], "b")
                    = HandledOn("merchantId", m, {"VIEW"})
        /\ \A c \in Categories :
              /\ Field(bandit[categoryBeta(c)], "a")
                    = HandledOn("productCategoryId", c, {"CLICK", "PURCHASE"})
              /\ Field(bandit[categoryBeta(c)], "b")
                    = HandledOn("productCategoryId", c, {"VIEW"})

\* a CLICK on a product in the store and a CART have both been handled
BanditClickAndCart ==
    /\ AllIdle
    /\ \E i, j \in 1..Len(handled) :
          /\ handled[i].type = "CLICK" /\ handled[i].productId = 1
          /\ handled[j].type = "CART" /\ handled[j].productId \in DOMAIN product
    /\ Field(bandit[merchantBeta("M1")], "a") = 1
    /\ Field(bandit[categoryBeta("C1")], "a") = 1

(***************************************************************************)
(* C7: a failure in step 2 (product lookup, bandit record) or in step 3    *)
(* (interaction append) does not abort the event: after a failed step 2    *)
(* handleEvent goes on with step 3 and, when the append itself succeeds,   *)
(* the row of the event is in the table; and handleEvent does not throw,   *)
(* so the loop goes back to brpop.                                         *)
(***************************************************************************)
LaterStepFailureDoesNotAbort ==
    \A c \in Consumers :
        LET t == trace[c]
        IN  /\ (t.s2 = "fail" /\ t.result = "running") => pc[c] = "create"
            /\ (t.s2 = "fail" /\ t.result # "running") => t.s3 \in {"ok", "fail"}
            /\ (t.s2 = "fail" /\ t.s3 = "ok") =>
                   \E i \in 1..Len(interaction) : interaction[i].ev = t.seq
            /\ (t.s2 = "fail" \/ t.s3 = "fail") => t.result # "threw"

\* step 2 of an event failed, its row was appended and handleEvent returned
RowAppendedAfterBanditFailure ==
    \E c \in Consumers :
        /\ trace[c].s2 = "fail" /\ trace[c].s3 = "ok"
        /\ trace[c].result = "returned"
        /\ pc[c] = "brpop"
        /\ \E i \in 1..Len(interaction) : interaction[i].ev = trace[c].seq

(***************************************************************************)
(* C8: the session-trail step is retried once when the cache call fails,   *)
(* and its failure does not cascade: step 2 and step 3 of the same event   *)
(* are still performed.                                                    *)
(***************************************************************************)
TrailFailureRetriedAndContained ==
    \A c \in Consumers :
        LET t == trace[c]
        IN  (t.s1 = "fail" /\ t.result # "running") =>
                /\ t.tries = 2
                /\ t.s2 # "none"
                /\ t.s3 # "none"

(***************************************************************************)
(* C9: popping a text that is no JSON changes no session trail, no bandit  *)
(* posterior and no interaction row, and the loop keeps running: every     *)
(* well-formed event queued behind such a text is eventually processed     *)
(* (its interaction row is written).                                       *)
(***************************************************************************)
BadJsonAtTail ==
    /\ events # <<>>
    /\ ~JSONparse(events[Len(events)]).ok

QueuedBehindBadJson(i) ==
    \E k, j \in 1..Len(events) :
        /\ k < j
        /\ events[k].seq = i /\ JSONparse(events[k]).ok
        /\ ~JSONparse(events[j]).ok

Processed(i) == \E r \in 1..Len(interaction) : interaction[r].ev = i

BadJsonDiscardedLoopGoesOn ==
    /\ [][(BadJsonAtTail /\ Len(events') < Len(events)) =>
              /\ sessionRecent' = sessionRecent
              /\ bandit' = bandit
              /\ interaction' = interaction
              /\ \A c \in Consumers : pc'[c] # pc[c] => pc'[c] = "sleep"]_vars
    /\ \A i \in 1..MaxEvents : QueuedBehindBadJson(i) ~> Processed(i)

\* the first text pushed was no JSON and was dropped; the event pushed behind
\* it has been processed
ProcessedBehindBadJson ==
    /\ posted = 2 /\ events = <<>>
    /\ Len(handled) = 1 /\ handled[1].seq = 2
    /\ Len(interaction) = 1 /\ interaction[1].ev = 2

(***************************************************************************)
(* C1: a getFeed call that reads user:topk:{userId} while the CF worker    *)
(* replaces it gets the complete old set or the complete new set -- one of *)
(* the sets the key held before the write or after a finished write --     *)
(* never an empty or partial one.                                          *)
(***************************************************************************)
ReaderSeesCommittedTopK ==
    feed.pc \notin {"idle", "userTop"} /\ feed.params.userId \in Users
    => \E z \in committed[feed.params.userId] :
        feed.userTop = ZREVRANGE(z, 0, CANDIDATE_K - 1)

(***************************************************************************)
(* C10: a getFeed result with limit in 1..100 has at most limit items and  *)
(* no product id twice, whatever the user top-K, the text matches, the     *)
(* global top-K and the category rows hold.                                *)
(***************************************************************************)
FeedWithinLimitDistinctIds ==
    feedOut.calls > 0 /\ feedOut.limit \in 1..100
    => /\ Len(feedOut.items) <= feedOut.limit
       /\ \A i, j \in 1..Len(feedOut.items) :
            i # j => feedOut.items[i].id # feedOut.items[j].id

\* a page cut to its limit out of more scored candidates, every source read
FeedPageCutFromOverlappingSources ==
    /\ feedOut.calls > 0
    /\ feedOut.limit = 3
    /\ Len(feedOut.items) = 3
    /\ feedOut.scored > 3
    /\ feedOut.read = {"text", "global", "category"}
    /\ feedOut.params.userId = "U1"
    /\ DOMAIN userTopK["U1"] \cap DOMAIN globalTop # {}
    /\ DOMAIN userTopK["U1"] \cap DOMAIN Similarity["red"] # {}

(***************************************************************************)
(* C11: every score getFeed returns is non-negative, and so is every score *)
(* in the cache: the per-user top-K scores the CF worker writes (dot       *)
(* products of the trained factors) and the global top-K scores.           *)
(***************************************************************************)
ScoresNonNegative ==
    /\ \A i \in 1..Len(feedOut.items) : feedOut.items[i].score >= 0
    /\ \A u \in Users : \A m \in DOMAIN userTopK[u] : userTopK[u][m] >= 0
    /\ \A m \in DOMAIN globalTop : globalTop[m] >= 0

(***************************************************************************)
(* C12: the cursor getFeed returns is the id of the last item of the page, *)
(* and null exactly when the page is empty; when at least `limit`          *)
(* candidates have a meta, the page has exactly `limit` items and the      *)
(* cursor is the id of the limit-th one.                                   *)
(***************************************************************************)
CursorIsLastItemOfPage ==
    feedOut.calls > 0
    => /\ feedOut.cursor = <<>> <=> feedOut.items = <<>>
       /\ feedOut.items # <<>>
            => feedOut.cursor = <<feedOut.items[Len(feedOut.items)].id>>
       /\ feedOut.scored >= feedOut.limit
            => /\ Len(feedOut.items) = feedOut.limit
               /\ feedOut.cursor = <<feedOut.items[feedOut.limit].id>>

\* a page of two items out of at least two scored candidates
CursorOfFullPage ==
    /\ feedOut.calls > 0
    /\ feedOut.limit = 2
    /\ feedOut.scored >= 2
    /\ feedOut.cursor = <<feedOut.items[2].id>>
    /\ feedOut.items[1].id # feedOut.items[2].id

(***************************************************************************)
(* C13: pagination is offset-by-last-id: a getFeed call with a cursor that *)
(* is a product id of the ranked list returns the items ranked after that  *)
(* product, so the page does not repeat the one that gave the cursor.      *)
(***************************************************************************)
PageStartsAfterCursor ==
    feedOut.calls > 0 /\ feedOut.params.cursor # <<>>
    => \A k \in 1..Len(feedOut.ranked) :
        feedOut.ranked[k] = feedOut.params.cursor[1]
        => [i \in 1..Len(feedOut.items) |-> feedOut.items[i].id]
           = SubSeq(feedOut.ranked, k + 1,
                    Min(k + feedOut.limit, Len(feedOut.ranked)))

\* C14: getFeed never throws for an operational failure: every call that has
\* ended, ended with a result {items, cursor} and not with a rejection, also
\* when a read of the cache (user top-K, global top-K, product meta, session
\* trail) failed on the way.
FeedNeverRejects == feedOut.calls > 0 => feedOut.error = ""

\* C15: a candidate whose posterior read failed is scored with the boost 0.5
\* and stays in the results, and a call that saw such a failure still returns
\* its ranking with that candidate in it.
BanditFailureIsNeutral ==
    /\ \A i \in 1..Len(feed.results) :
        feed.results[i].caught
        => /\ feed.results[i].boost = NEUTRAL_BOOST
           /\ feed.results[i].id = feed.candidateIds[
                  CHOOSE k \in 1..Len(feed.candidateIds) :
                      feed.candidateIds[k] = feed.results[i].id]
           /\ feed.results[i].score
              = finalScore(mapGet(feed.candidatesMap, feed.results[i].id),
                           feed.results[i].meta.popularity, NEUTRAL_BOOST,
                           textScoreOf(feed.textMatches, feed.results[i].id),
                           sessionAffinityOf(sessionRecent,
                               feed.params.sessionId, feed.results[i].id),
                           feed.params.searchText)
    /\ feedOut.calls > 0 /\ feedOut.caught # {}
       => /\ feedOut.error = ""
          /\ feedOut.caught \subseteq
                {feedOut.ranked[k] : k \in 1..Len(feedOut.ranked)}

\* a call returned a page although the posterior read of one of its
\* candidates had failed
FeedReturnedAfterBanditFailure ==
    /\ feedOut.calls > 0
    /\ feedOut.error = ""
    /\ feedOut.caught # {}
    /\ Len(feedOut.items) > 0

\* C16: a visitor without a user, a search or a category asks for n products
\* while the cache is empty and the store holds at least n products: the page
\* is the n most popular products of the store in descending popularity,
\* every score is nonzero and the cursor is the id of the last of them.
ColdStartFeedIsMostPopular ==
    /\ feedOut.calls > 0
    /\ feedOut.error = ""
    /\ feedOut.params \in AnonymousRequests
    /\ feedOut.limit <= Cardinality(DOMAIN product)
    /\ globalTop = EmptyZset
    => LET items == feedOut.items
           ids == {items[i].id : i \in 1..Len(items)}
       IN  /\ Len(items) = feedOut.limit
           /\ Cardinality(ids) = feedOut.limit
           /\ \A i \in 1..Len(items) :
               /\ items[i].score # 0
               /\ \A j \in (i + 1)..Len(items) :
                   product[items[i].id].popularity
                   >= product[items[j].id].popularity
               /\ \A p \in DOMAIN product \ ids :
                   product[items[i].id].popularity >= product[p].popularity
           /\ feedOut.cursor = <<items[Len(items)].id>>

\* the rows of product id and of one type written by the consumer (value 1)
\* inside the 30 days before the clock
WindowCount(id, type) ==
    Cardinality({i \in 1..Len(interaction) :
        /\ interaction[i].productId = id
        /\ interaction[i].type = type
        /\ interaction[i].value = 1
        /\ interaction[i].createdAt >= now - 30})

Occurrences(list, m) == Cardinality({i \in 1..Len(list) : list[i] = m})

\* C17: a re-ranked list of N >= 4 items holds no merchant more than
\* ceil(N * 0.25) times and no two neighbours of one merchant, unless the
\* candidates have too few distinct merchants for that (some merchant has
\* more than ceil(N * 0.25) of the candidates).
DiversityHoldsWhenPossible ==
    LET list == feedOut.merchants
        N == Len(list)
        cap == (N + 3) \div 4
    IN  /\ feedOut.calls > 0
        /\ N >= 4
        /\ \A m \in ScoredMerchants : Occurrences(list, m) <= cap
        => \A i \in 1..(N - 1) : list[i] # list[i + 1]

\* C19: when the trainer has completed, the cached top-K of every trained
\* user holds min(200, number of trained products) products, each with the
\* dot product of the user's vector and its vector as score, and no trained
\* product left out has a higher dot product than one that is in.
TopKIsHighestDotProducts ==
    cf.pc = "idle" /\ trained # <<>>
    => LET fac == trained[Len(trained)].factors
       IN  \A uid \in DOMAIN fac.user :
            LET z == userTopK[uid]
                all == DOMAIN fac.product
            IN  /\ DOMAIN z \subseteq all
                /\ Cardinality(DOMAIN z) = Min(200, Cardinality(all))
                /\ \A p \in DOMAIN z :
                    /\ z[p] = dot(fac.user[uid], fac.product[p])
                    /\ \A q \in all \ DOMAIN z :
                        dot(fac.user[uid], fac.product[q]) <= z[p]

\* the trainer has completed over 201 products: the top-K of U1 holds 200 of
\* them and one product is left out
TopKTruncatedToK ==
    /\ cf.pc = "idle"
    /\ trained # <<>>
    /\ Cardinality(DOMAIN trained[Len(trained)].factors.product) = 201
    /\ Cardinality(DOMAIN userTopK["U1"]) = 200
    /\ Cardinality(DOMAIN userTopK["U2"]) = 200

\* C20: training is reproducible: two runs over the same interactions in the
\* same order end with the same user and product factors and the same
\* top-K lists.
TrainingIsReproducible ==
    \A i, j \in 1..Len(trained) :
        trained[i].rows = trained[j].rows
        => /\ trained[i].factors = trained[j].factors
           /\ trained[i].top = trained[j].top

\* C21: the handler answers {ok: true} only to a POST whose body has a string
\* sessionId, a string productId and a type of VIEW, CLICK, CART or PURCHASE,
\* and that answer comes with the event pushed at the left of the queue; an
\* answer 405 or 400 leaves the queue as it was.
HandlerPushesOnlyValidPosts ==
    /\ [](response.status = 200
          => /\ response.req.method = "POST"
             /\ response.req.body.sessionId # Undefined
             /\ response.req.body.productId # 0
             /\ response.req.body.type \in {"VIEW", "CLICK", "CART", "PURCHASE"})
    /\ [][response'.n # response.n
          => /\ response'.status \in {200, 400, 405}
             /\ response'.status = 200
                => /\ Len(events') = Len(events) + 1
                   /\ Tail(events') = events
                   /\ Head(events').kind = "json"
                   /\ Head(events').sessionId = response'.req.body.sessionId
                   /\ Head(events').productId = response'.req.body.productId
                   /\ Head(events').type = response'.req.body.type
             /\ response'.status \in {400, 405} => events' = events]_vars

\* a valid POST was pushed and is still queued, and the GET that followed
\* was answered 405
GetRefusedAfterPost ==
    /\ response.n = 2
    /\ response.status = 405
    /\ response.req.method = "GET"
    /\ posted = 1
    /\ Len(events) = 1

\* no item of the pool passes the three tests of a round of the re-ranker
NoCandidateQualifies ==
    LET N == Len(div.items)
    IN  \A i \in 1..Len(div.pool) :
            LET m == div.pool[i].meta.merchantId
                c == div.pool[i].meta.productCategoryId
            IN  \/ lastViolates(div.out, m, div.opts.maxSameMerchantConsecutive)
                \/ Count(div.merchantCount, m) >= (N + 3) \div 4
                \/ Count(div.categoryCount, c) >= (2 * N + 4) \div 5

\* C22: a round of ensureDiversity in which no pool item passes the tests
\* moves the head of the pool to the output; so a list whose items all have
\* one merchant comes out in the order it came in.
RelaxationTakesPoolHead ==
    /\ [][div.pc = "loop" /\ div'.pc = "loop" /\ NoCandidateQualifies
          => /\ div'.out = Append(div.out, Head(div.pool))
             /\ div'.pool = Tail(div.pool)]_vars
    /\ [](/\ div.pc = "done"
          /\ \A i \in 1..Len(div.items) :
                div.items[i].meta.merchantId = div.items[1].meta.merchantId
          => div.out = div.items)

\* ten items of one merchant went through: the first was picked, the other
\* nine were taken by the relaxation
TenOfOneMerchantDone ==
    /\ div.pc = "done"
    /\ Len(div.items) = 10
    /\ \A i \in 1..10 : div.items[i].meta.merchantId = "M1"
    /\ div.relaxed = 2..10
    /\ div.out = div.items

\* C28: ensureDiversity terminates and returns a permutation of its input:
\* every round moves one item from the pool to the output, the returned list
\* has the N input items, each exactly once, and starts with the first input
\* item.
DiversityReturnsPermutation ==
    /\ [](div.pc = "loop" => Len(div.out) + Len(div.pool) = Len(div.items))
    /\ [](div.pc = "done" =>
            /\ Len(div.out) = Len(div.items)
            /\ \A i \in 1..Len(div.items) :
                  Cardinality({j \in 1..Len(div.out) :
                                  div.out[j] = div.items[i]}) = 1
            /\ div.items # <<>> => div.out[1] = div.items[1])
    /\ []((div.pc = "loop") => <>(div.pc = "done"))

\* a call returned a list in which normal picks and relaxation both took
\* part and the order changed
MixedPicksDone ==
    /\ div.pc = "done"
    /\ div.relaxed # {}
    /\ Cardinality(div.relaxed) < Len(div.out) - 1
    /\ div.out # div.items

\* the textScore of the match of id in the rows of the search, <<>> if none
matchOf(rows, id) ==
    IF \E i \in 1..Len(rows) : rows[i].id = id
        THEN <<rows[CHOOSE i \in 1..Len(rows) : rows[i].id = id].textScore>>
        ELSE <<>>

\* C23: the four sources are read in the order personalized, textual,
\* popularity, category; a candidate keeps its place in the map; the two
\* backfills leave the baseScore of a candidate they find in the map as it
\* is, a text match sets it to max(existing, 0.05 + 0.8 * textScore); so a
\* baseScore never decreases once the candidate is in the map.
FirstWriterKeepsBaseScore ==
    /\ [][/\ feed'.pc = "text" => feed.pc = "userTop"
          /\ feed'.pc = "global" => feed.pc \in {"userTop", "text"}
          /\ feed'.pc = "category" => feed.pc \in {"userTop", "text", "global"}
          /\ feed.pc = "userTop" => feed.candidatesMap = <<>>]_vars
    /\ [][feed.pc \in {"text", "global", "category"} =>
            \A i \in 1..Len(feed.candidatesMap) :
                LET was == feed.candidatesMap[i]
                    is == feed'.candidatesMap[i]
                    ts == matchOf(feed'.textMatches, was.id)
                IN  /\ Len(feed'.candidatesMap) >= Len(feed.candidatesMap)
                    /\ is.id = was.id
                    /\ is.baseScore >= was.baseScore
                    /\ feed.pc \in {"global", "category"}
                        => is.baseScore = was.baseScore
                    /\ feed.pc = "text" /\ ts = <<>>
                        => is.baseScore = was.baseScore
                    /\ feed.pc = "text" /\ ts # <<>>
                        => is.baseScore
                            = Max(was.baseScore, 50000 + (8 * ts[1]) \div 10)]_vars

\* after the four phases: the search raised the personalized score of
\* product 1, and both backfills met candidates the map already had
TextRaisedAndBackfillsSkipped ==
    /\ feed.pc = "meta"
    /\ feed.read = {"text", "global", "category"}
    /\ \E i \in 1..Len(feed.userTop) :
          /\ feed.userTop[i].id = 1
          /\ feed.userTop[i].score < mapGet(feed.candidatesMap, 1)
    /\ 4 \in DOMAIN globalTop
    /\ mapGet(feed.candidatesMap, 4) = 210000

\* C24: getFeed reads the global top-K exactly when the map has fewer than
\* 3 * limit candidates after the personalized and textual phases, and
\* queries the store for the category exactly when a category filter is set
\* and the map has fewer than 2 * limit candidates after the popularity
\* phase; a source is read only in its own phase, and the map does not
\* change after the four phases.
BackfillsReadOnlyBelowThresholds ==
    /\ [][\/ feed.pc = "userTop" /\ feed'.pc # "text"
          \/ feed.pc = "text"
          => (feed'.pc = "global"
                <=> Len(feed'.candidatesMap) < 3 * feed'.limit)]_vars
    /\ [][\/ feed.pc = "userTop" /\ feed'.pc \notin {"text", "global"}
          \/ feed.pc = "text" /\ feed'.pc # "global"
          \/ feed.pc = "global"
          => (feed'.pc = "category"
                <=> /\ feed'.params.productCategoryId # Undefined
                    /\ Len(feed'.candidatesMap) < 2 * feed'.limit)]_vars
    /\ [][/\ "global" \in feed'.read \ feed.read => feed.pc = "global"
          /\ "category" \in feed'.read \ feed.read => feed.pc = "category"
          /\ feed.pc \in {"meta", "score", "rank"} /\ feed'.pc # "idle"
              => feed'.candidatesMap = feed.candidatesMap]_vars

\* a request with a category filter read the global top-K, which filled the
\* map to 2 * limit candidates or more, and so did not query the store
GlobalReadCategorySkipped ==
    /\ feed.pc = "meta"
    /\ feed.params.productCategoryId = "C1"
    /\ feed.read \cap {"global", "category"} = {"global"}
    /\ Len(feed.candidatesMap) >= 2 * feed.limit
    /\ Len(feed.candidatesMap) < 3 * feed.limit

\* C25: the candidates getFeed scores are among the first CANDIDATE_K ids of
\* the map, and each has a meta in the product meta cache or a row in the
\* store: a candidate with neither is in no result.  (The cache only grows
\* during a request, by the metas of rows of the store.)
ScoredCandidatesHaveMeta ==
    /\ \A i \in 1..Len(feed.results) :
          /\ feed.results[i].id \in DOMAIN productMeta \cup DOMAIN product
          /\ \E j \in 1..Min(CANDIDATE_K, Len(feed.candidatesMap)) :
                feed.candidatesMap[j].id = feed.results[i].id
    /\ \A i \in 1..Len(feedOut.ranked) :
          feedOut.ranked[i] \in DOMAIN productMeta \cup DOMAIN product
    /\ \A i \in 1..Len(feedOut.items) :
          feedOut.items[i].id \in DOMAIN productMeta \cup DOMAIN product

\* C26: the sessionAffinity of a scored candidate is 1.0 exactly when the
\* request has a sessionId and the candidate's id is among the 20 most
\* recent entries of the trail of that session, and 0 otherwise; a product
\* that is only at place 21 of the trail gets 0.
AffinityIsRecentTwenty ==
    \A i \in 1..Len(feed.results) :
        LET r == feed.results[i]
            s == feed.params.sessionId
            trail == IF s \in DOMAIN sessionRecent THEN sessionRecent[s] ELSE <<>>
            recent == {trail[k] : k \in 1..Min(20, Len(trail))}
        IN  /\ r.affinity \in {0, 1000000}
            /\ r.affinity = 1000000 <=> s # Undefined /\ r.id \in recent

\* C27: however the steps of an event consumer (the push and the trim of the
\* trail, the bandit increments) fall between the reads of one getFeed
\* request, the request completes without an error and its result is well
\* formed: at most limit items, no id twice, and for each scored candidate a
\* session-affinity contribution of 0 or wSess, though the trail may differ
\* from one candidate's read to the next.
FeedWellFormedUnderEvents ==
    /\ [](/\ Len(feedOut.items) <= feedOut.limit
          /\ \A i, j \in 1..Len(feedOut.items) :
                feedOut.items[i].id = feedOut.items[j].id => i = j
          /\ \A i, j \in 1..Len(feedOut.ranked) :
                feedOut.ranked[i] = feedOut.ranked[j] => i = j
          /\ feedOut.error = ""
          /\ \A i \in 1..Len(feed.results) :
                wSess * feed.results[i].affinity \in {0, wSess * 1000000})
    /\ [](feed.pc # "idle" => <>(feed.pc = "idle" /\ feedOut.calls = 1))

\* the consumer pushed product 3 to the trail between the read for the
\* first candidate and the read for the second, which then has the affinity
TrailChangedBetweenReads ==
    /\ Len(feed.results) = 2
    /\ feed.results[1].seen # feed.results[2].seen
    /\ feed.results[1].id = 1
    /\ feed.results[2].id = 3
    /\ feed.results[2].affinity = 1000000
    /\ 3 \notin {feed.results[1].seen[k] : k \in 1..Len(feed.results[1].seen)}

\* consumers competing on the queue `events` never share an event: an
\* event that was popped is no longer in the queue, is popped once and is
\* in the hands of one consumer; so the store has at most one interaction
\* row of an event, and only of popped events.  With a single consumer the
\* events are popped, and their rows written, in the order of their enqueue.
EventsPoppedOnce ==
    LET queued == {events[i].seq : i \in 1..Len(events)}
        popped == {handled[i].seq : i \in 1..Len(handled)}
        busy == {c \in Consumers : cur[c] # NoEvent}
    IN  /\ Cardinality(queued) = Len(events)
        /\ Cardinality(popped) = Len(handled)
        /\ queued \cap popped = {}
        /\ queued \cup popped \subseteq 1..posted
        /\ \A c, d \in busy : cur[c].seq = cur[d].seq => c = d
        /\ \A c \in busy : cur[c].seq \in popped
        /\ \A i, j \in 1..Len(interaction) :
              interaction[i].ev = interaction[j].ev => i = j
        /\ \A i \in 1..Len(interaction) : interaction[i].ev \in popped
        /\ Cardinality(replicas) = 1 =>
              /\ \A i, j \in 1..Len(handled) :
                    i < j => handled[i].seq < handled[j].seq
              /\ \A i, j \in 1..Len(interaction) :
                    i < j => interaction[i].ev < interaction[j].ev
              /\ \A q \in queued, h \in popped : h < q

\* C29, the two parts together: no event is shared, and every well-formed
\* event in the queue is popped as long as the consumers keep running
EveryEventPoppedByOneConsumer ==
    /\ []EventsPoppedOnce
    /\ \A n \in 1..MaxEvents :
          (\E i \in 1..Len(events) :
              events[i].seq = n /\ JSONparse(events[i]).ok)
          ~> (\E i \in 1..Len(handled) : handled[i].seq = n)

\* two consumers each took one of two queued events, and the row of the
\* second event was written first
TwoConsumersOneEventEach ==
    /\ replicas = Consumers
    /\ Len(handled) = 2
    /\ Len(interaction) = 2
    /\ interaction[1].ev = 2
    /\ interaction[2].ev = 1
    /\ trace["c1"].seq # trace["c2"].seq
    /\ trace["c1"].seq # 0
    /\ trace["c2"].seq # 0
====
